---- MODULE Spec2Model ----
(***************************************************************************)
(* Loan underwriting demo: the tool-calling agent loops (orchestrator,     *)
(* verification, policy) and the inference gateway call_with_tools.        *)
(*                                                                         *)
(* The program is single threaded.  A run is one call of a root function   *)
(* (run_orchestrator, run_verification_agent, run_policy_agent, or a       *)
(* direct call of call_with_tools); the orchestrator calls the other two   *)
(* agents as tools, which is modelled by the call stack `callstack`.       *)
(*                                                                         *)
(* The language model and the network are the environment: every gateway   *)
(* attempt either fails with some error text or returns some response.     *)
(*                                                                         *)
(* Abstractions.  Argument values are value classes ("pos", "zero",        *)
(* "null", ...), tool outputs are tokens ("dti_result", ...), error        *)
(* texts are token sequences.  Tool-call argument payloads that parse are  *)
(* JSON objects (the declared type dict[str, Any] of the agents' code).    *)
(***************************************************************************)
EXTENDS Integers, Sequences, FiniteSets, TLC

(***************************************************************************)
(* Bounds of the model (not program constants).                            *)
(***************************************************************************)
\* tool calls the model may request in one turn
MaxCalls == 2
\* requests of one run that differ from the routine request (see Cost)
MaxVaried == 2
\* the longest list of missing documents given to summarize_for_underwriter
MaxDocs == 2
\* the longest list of uploaded documents given to check_doc_completeness
MaxUploaded == 3
\* how often a direct call of a tool is repeated with the same arguments
MaxRepeats == 2
\* largest max_retries argument of a direct call of call_with_tools
MaxRetriesArg == 3
\* direct calls of call_with_tools made one after the other by one client run
MaxClientCalls == 2
\* how far around each policy threshold the metrics are sampled
Spread == 1

(***************************************************************************)
(* Program constants.                                                      *)
(***************************************************************************)
MAX_RETRIES == 2
INITIAL_BACKOFF == 1
BACKOFF_MULTIPLIER == 2

max_iterations_policy == 3
max_iterations_verification == 5
max_iterations_orchestrator == 10
\* the thresholds of the deterministic policy evaluation
max_dti == 43
max_ltv == 80
min_fico == 680

\* Each activation is a record of the function's locals, its position pc, and
\* the history field api_failed (the except FireworksAPIError clause ran).
VARIABLES
    callstack,  \* the functions that are running, outermost first
    gw,         \* the activation of call_with_tools
    verif,      \* the activation of run_verification_agent
    pol,        \* the activation of run_policy_agent
    orch,       \* the activation of run_orchestrator
    client,     \* a caller that uses call_with_tools directly
    varied,     \* non-routine requests made so far by the environment
    http        \* the activation of main.orchestrator_endpoint

vars == <<callstack, gw, verif, pol, orch, client, varied, http>>

Top == callstack[Len(callstack)]

(***************************************************************************)
(* Values.                                                                 *)
(***************************************************************************)
\* Python None, as a content or an argument value
None == "None"

\* A tool output, or Python None (text = None).  {"error": str(e)} is the
\* error-shaped result.
NoResult == [error |-> FALSE, text |-> None]
OkResult(t) == [error |-> FALSE, text |-> t]
ErrorResult(e) == [error |-> TRUE, text |-> e.type]

\* if x: for a result dict or None (a result dict is never empty)
Truthy(r) == r.text # None

\* The exceptions of models.py; str(e) is kept as the record itself.
ToolExecutionError(tool_name) ==
    [type |-> "ToolExecutionError", about |-> tool_name, retries |-> 0]
ValidationError(field) ==
    [type |-> "ValidationError", about |-> field, retries |-> 0]
FireworksAPIError(message, retries) ==
    [type |-> "FireworksAPIError", about |-> message, retries |-> retries]
NoError == [type |-> None, about |-> None, retries |-> 0]

\* response = None before the first successful call
NoResponse == [set |-> FALSE, content |-> None, tool_calls |-> <<>>]

(***************************************************************************)
(* Tools of the agents and the requests the model may make.                *)
(***************************************************************************)
TOOL_REQUIRED_ARGS ==
    [compute_dti |-> <<"income", "debts">>,
     compute_ltv |-> <<"loan_amount", "property_value">>,
     check_doc_completeness |-> <<"uploaded_docs">>]

VerificationToolNames == DOMAIN TOOL_REQUIRED_ARGS

PolicyToolNames == {"get_policy_snippet"}

OrchestratorToolNames ==
    {"run_verification_agent", "run_policy_agent", "summarize_for_underwriter"}

\* a name that is a tool of no agent
UnknownTool == "lookup_credit_bureau"

ToolNames(agent) ==
    CASE agent = "verification" -> VerificationToolNames
      [] agent = "policy" -> PolicyToolNames
      [] agent = "orchestrator" -> OrchestratorToolNames
      [] OTHER -> {"compute_dti"}

(***************************************************************************)
(* Requests.  A tool call as sent by the model carries an id, a name and   *)
(* an argument payload (JSON text); the payload either parses to an        *)
(* argument dict or is malformed at some character position.               *)
(***************************************************************************)
ValidArguments(name) ==
    CASE name = "compute_dti" -> [income |-> "pos", debts |-> "list"]
      [] name = "compute_ltv" -> [loan_amount |-> "pos", property_value |-> "pos"]
      [] name = "check_doc_completeness" -> [uploaded_docs |-> "list"]
      [] name = "get_policy_snippet" -> [product |-> "str"]
      [] name = "run_verification_agent" ->
            [income |-> "pos", debts |-> "list", loan_amount |-> "pos",
             property_value |-> "pos", uploaded_docs |-> "list"]
      [] name = "run_policy_agent" ->
            [dti_percent |-> "pos", ltv_percent |-> "pos", fico |-> "pos"]
      [] name = "summarize_for_underwriter" ->
            [verification_result |->
                [dti_percent |-> 30, ltv_percent |-> 70, missing_docs |-> <<>>],
             policy_result |->
                [decision |-> "PASS", reason_codes |-> <<"ALL_CRITERIA_MET">>,
                 explanation |-> "explanations"],
             fico |-> 720]
      [] OTHER -> [query |-> "str"]

Without(args, key) == [k \in (DOMAIN args) \ {key} |-> args[k]]

\* the ids the model assigns: unique within one turn
CallId(j) == 100 + j

Call(name, arguments) == [name |-> name, arguments |-> arguments, json |-> "ok"]

\* The calls an agent's model may request besides the valid call of each of
\* its tools: calls that fail in each way the agent's code distinguishes, a
\* call of a tool the agent does not have, and a payload that is not JSON.
FailingCalls(agent) ==
    CASE agent = "verification" ->
            {Call("compute_dti", Without(ValidArguments("compute_dti"), "debts")),
             Call("check_doc_completeness", [uploaded_docs |-> "pos"])}
      [] agent = "policy" ->
            {Call("get_policy_snippet", [product |-> "list"]),
             Call("get_policy_snippet",
                  Without(ValidArguments("get_policy_snippet"), "product"))}
      [] agent = "client" -> {}
      [] OTHER ->
            {Call("run_policy_agent",
                  Without(ValidArguments("run_policy_agent"), "fico")),
             Call("run_verification_agent",
                  [ValidArguments("run_verification_agent")
                     EXCEPT !.income = "null"])}

MalformedTool(agent) ==
    CASE agent = "policy" -> "get_policy_snippet"
      [] agent = "orchestrator" -> "run_verification_agent"
      [] OTHER -> "compute_dti"

CallMenu(agent) ==
    {Call(n, ValidArguments(n)) : n \in ToolNames(agent)}
    \cup FailingCalls(agent)
    \cup (IF agent = "client" THEN {}
          ELSE {Call(UnknownTool, ValidArguments(UnknownTool))})
    \cup {[name |-> MalformedTool(agent),
           arguments |-> ValidArguments(MalformedTool(agent)), json |-> j] :
            j \in {"bad_at_0", "bad_at_500"}}

\* The requests that cost nothing are one valid call, with null content, of
\* the agent's routine tool or, for the verification agent, of the tool
\* whose result is the next one missing (stage 1..3: dti, ltv, documents).
RoutineTool(agent) ==
    CASE agent = "policy" -> "get_policy_snippet"
      [] agent = "orchestrator" -> "summarize_for_underwriter"
      [] OTHER -> "compute_dti"

Stages == 1..3

StageTool(agent, stage) ==
    IF agent = "verification"
    THEN <<"compute_dti", "compute_ltv", "check_doc_completeness">>[stage]
    ELSE RoutineTool(agent)

IsRoutineCall(agent, stage, c) ==
    /\ c.name \in {RoutineTool(agent), StageTool(agent, stage)}
    /\ c.arguments = ValidArguments(c.name)
    /\ c.json = "ok"

\* contents of a final response: null, empty, prose and, for the policy
\* agent, text with braces: "bad_json" is not JSON between the first "{" and
\* the last "}", "json" is an object with the decision PASS, "json_review" an
\* object with the decision "REVIEW", "json_null" an object with the decision
\* null
Contents(agent) ==
    CASE agent = "policy" ->
            {None, "", "text", "bad_json", "json", "json_review", "json_null"}
      [] agent = "orchestrator" -> {None, "", "text"}
      [] OTHER -> {None, "text"}

\* the final response that costs nothing
RoutineContent(agent) ==
    CASE agent = "policy" -> "json"
      [] agent = "orchestrator" -> "text"
      [] OTHER -> None

\* what a response takes from the budget of non-routine requests: one for
\* each call that is not routine, one for each call after the first, one for
\* a content that is not the routine one
Cost(agent, stage, r) ==
    IF r.tool_calls = <<>>
    THEN (IF r.content = RoutineContent(agent) THEN 0 ELSE 1)
    ELSE (Len(r.tool_calls) - 1)
         + Cardinality({j \in 1..Len(r.tool_calls) :
                           ~IsRoutineCall(agent, stage, r.tool_calls[j])})
         + (IF r.content = None THEN 0 ELSE 1)

WithIds(calls) ==
    [j \in 1..Len(calls) |->
        [id |-> CallId(j), name |-> calls[j].name,
         arguments |-> calls[j].arguments, json |-> calls[j].json]]

\* the raw responses the endpoint may return to an agent's call
RawResponses(agent) ==
    {[content |-> c, tool_calls |-> <<>>] : c \in Contents(agent)}
    \cup UNION {{[content |-> c, tool_calls |-> WithIds(calls)] :
                    c \in {None, "text"}, calls \in [1..n -> CallMenu(agent)]} :
                n \in 1..MaxCalls}

\* the callers of the gateway: the three agents, and a direct caller that
\* sends the tool compute_dti alone
Agents == {"verification", "policy", "orchestrator", "client"}

Budget == MaxVaried

Affordable ==
    [agent \in Agents |->
        [stage \in Stages |->
            [budget \in 0..MaxVaried |->
                {r \in RawResponses(agent) : Cost(agent, stage, r) <= budget}]]]

AffordableResponses(agent, stage, budget) == Affordable[agent][stage][budget]

(***************************************************************************)
(* Inference gateway: fireworks_client.call_with_tools.                    *)
(***************************************************************************)
\* str(e).lower() on the tokens of an error text
Lower(t) ==
    CASE t = "Connection" -> "connection"
      [] t = "Rate limit" -> "rate limit"
      [] t = "Request" -> "request"
      [] OTHER -> t

RetryKeywords ==
    {"timeout", "timed out", "rate limit", "429", "500", "502", "503", "504",
     "connection", "network", "temporarily unavailable"}

\* error texts of the exceptions the endpoint call may raise
NetworkErrors ==
    {<<"Request", "timed out">>, <<"Error code:", "503">>,
     <<"Connection", "refused">>, <<"Rate limit", "exceeded">>,
     <<"Error code:", "401", "invalid api key">>, <<"Error code:", "400">>}

\* the error texts tried when an agent is the caller; there a failed
\* attempt takes one from the budget of non-routine requests
AgentNetworkErrors == {<<"Request", "timed out">>, <<"Error code:", "400">>}

is_retryable(error_str) ==
    \E j \in 1..Len(error_str) : Lower(error_str[j]) \in RetryKeywords

\* parse_tool_arguments: json.loads, a JSONDecodeError becomes
\* ValueError("Failed to parse tool arguments: <message naming the position>")
Malformed(call) == call.json # "ok"

ParseErrorText(call) ==
    <<"Failed to parse tool arguments:", "Expecting value:", "char",
      IF call.json = "bad_at_0" THEN "0" ELSE "500">>

parse_tool_arguments(call) == call.arguments

\* parse_response on a response whose payloads all parse
parse_response(raw) ==
    [set |-> TRUE,
     content |-> raw.content,
     tool_calls |-> [j \in 1..Len(raw.tool_calls) |->
                        [id |-> raw.tool_calls[j].id,
                         name |-> raw.tool_calls[j].name,
                         arguments |-> parse_tool_arguments(raw.tool_calls[j])]]]

ParseFails(raw) == \E j \in 1..Len(raw.tool_calls) : Malformed(raw.tool_calls[j])

FirstMalformed(raw) ==
    raw.tool_calls[CHOOSE j \in 1..Len(raw.tool_calls) :
                      /\ Malformed(raw.tool_calls[j])
                      /\ \A h \in 1..(j - 1) : ~Malformed(raw.tool_calls[h])]

GwIdle ==
    [status |-> "idle", caller |-> None, max_retries |-> MAX_RETRIES,
     attempt |-> 0, backoff |-> INITIAL_BACKOFF, slept |-> <<>>, tries |-> 0,
     last_error |-> <<>>, cause |-> None, raised |-> NoError,
     result |-> NoResponse]

\* a faulty variant: the backoff of the previous call is kept
KeptBackoff(prev) == prev.backoff

\* backoff = INITIAL_BACKOFF: a local of the call
StartBackoff(prev) == INITIAL_BACKOFF

\* entry of call_with_tools(messages, tools, max_retries=mr)
GwEnter(caller, mr) ==
    [GwIdle EXCEPT !.status = "running", !.caller = caller, !.max_retries = mr,
                   !.backoff = StartBackoff(gw)]

\* a faulty variant: every failure is retried until the attempts run out
RaiseWhenExhausted(retryable, attempt, max_retries) == attempt >= max_retries

\* if not is_retryable or attempt >= max_retries: raise
RaiseNow(retryable, attempt, max_retries) ==
    ~retryable \/ attempt >= max_retries

\* a faulty variant: the attempts are reported, not the retries
RetriesPlusOne(attempt) == attempt + 1

\* FireworksAPIError(str(e), retries=attempt)
RetriesReported(attempt) == attempt

\* backoff *= BACKOFF_MULTIPLIER
NextBackoff(backoff) == backoff * BACKOFF_MULTIPLIER

\* who the endpoint answers: the caller whose tools were sent
GwAgent == gw.caller

\* the stage of the verification agent that is calling
GwStage ==
    IF gw.caller # "verification" THEN 1
    ELSE IF ~Truthy(verif.dti_result) THEN 1
    ELSE IF ~Truthy(verif.ltv_result) THEN 2
    ELSE 3

\* the responses the endpoint may return to this attempt
GwResponses == AffordableResponses(GwAgent, GwStage, Budget - varied)

\* The exceptions one attempt may end with inside the try block: the endpoint
\* call raises, or it returns and parse_response raises on a payload.
AttemptFailures ==
    {[text |-> e, cause |-> "network", cost |-> 0] :
        e \in IF gw.caller = "client" THEN NetworkErrors ELSE {}}
    \cup {[text |-> e, cause |-> "network", cost |-> 1] :
            e \in IF gw.caller # "client" /\ varied < Budget
                  THEN AgentNetworkErrors ELSE {}}
    \cup {[text |-> ParseErrorText(FirstMalformed(r)), cause |-> "parse",
           cost |-> Cost(GwAgent, GwStage, r)] :
            r \in {x \in GwResponses : ParseFails(x)}}

\* for attempt in range(max_retries + 1)
GwAttemptEnabled ==
    /\ gw.status = "running"
    /\ gw.attempt < gw.max_retries + 1

\* the attempt returns parse_response(r) to the caller
GwReturns(r) ==
    /\ GwAttemptEnabled
    /\ r \in GwResponses
    /\ ~ParseFails(r)
    /\ varied' = varied + Cost(GwAgent, GwStage, r)

\* the attempt fails with f and call_with_tools raises GwRaisedError(f)
GwRaises(f) ==
    /\ GwAttemptEnabled
    /\ f \in AttemptFailures
    /\ RaiseNow(is_retryable(f.text), gw.attempt, gw.max_retries)
    /\ varied' = varied + f.cost

GwRaisedError(f) == FireworksAPIError(f.text, RetriesReported(gw.attempt))

\* the history field attempts of an agent run counts the passes of the for
\* loop of call_with_tools (line 63) made for it
CountAttempt(f) == [f EXCEPT !.attempts = @ + 1]

\* the attempt fails, the failure is retried after a sleep
AttemptRetries ==
    /\ GwAttemptEnabled
    /\ \E f \in AttemptFailures :
        /\ ~RaiseNow(is_retryable(f.text), gw.attempt, gw.max_retries)
        /\ gw' = [gw EXCEPT !.tries = @ + 1, !.last_error = f.text,
                            !.cause = f.cause,
                            !.slept = Append(@, gw.backoff),
                            !.backoff = NextBackoff(@),
                            !.attempt = @ + 1]
        /\ varied' = varied + f.cost
    /\ verif' = IF gw.caller = "verification" THEN CountAttempt(verif) ELSE verif
    /\ pol' = IF gw.caller = "policy" THEN CountAttempt(pol) ELSE pol
    /\ orch' = IF gw.caller = "orchestrator" THEN CountAttempt(orch) ELSE orch
    /\ UNCHANGED <<callstack, client, http>>

\* a direct call returns: the activation is kept for the caller to read
AttemptReturns ==
    /\ gw.caller = "client"
    /\ \E r \in GwResponses :
        /\ GwReturns(r)
        /\ gw' = [gw EXCEPT !.status = "returned", !.tries = @ + 1,
                            !.result = parse_response(r)]
    /\ UNCHANGED <<callstack, verif, pol, orch, client, http>>

\* a direct call raises FireworksAPIError
AttemptRaises ==
    /\ gw.caller = "client"
    /\ \E f \in AttemptFailures :
        /\ GwRaises(f)
        /\ gw' = [gw EXCEPT !.status = "raised", !.tries = @ + 1,
                            !.last_error = f.text, !.cause = f.cause,
                            !.raised = GwRaisedError(f)]
    /\ UNCHANGED <<callstack, verif, pol, orch, client, http>>

\* The statement after the loop (line 94) is reached only with
\* max_retries < 0, which no caller passes: it is not an action.

(***************************************************************************)
(* A caller that uses the gateway directly, with any max_retries.          *)
(***************************************************************************)
ClientIdle == [pc |-> "idle", calls |-> 0, outcomes |-> <<>>]

ClientCall ==
    /\ Top = "client"
    /\ client.pc = "idle"
    /\ client.calls < MaxClientCalls
    /\ gw.status # "running"
    /\ \E mr \in 0..MaxRetriesArg :
        gw' = GwEnter("client", mr)
    /\ client' = [client EXCEPT !.pc = "await", !.calls = @ + 1]
    /\ UNCHANGED <<callstack, verif, pol, orch, varied, http>>

\* the caller takes the response or the exception of the call
ClientResumes ==
    /\ Top = "client"
    /\ client.pc = "await"
    /\ gw.status \in {"returned", "raised"}
    /\ client' = [client EXCEPT !.pc = "idle",
                                !.outcomes = Append(@, [status |-> gw.status,
                                                        retries |-> gw.raised.retries,
                                                        slept |-> gw.slept])]
    /\ gw' = [gw EXCEPT !.result = NoResponse]
    /\ UNCHANGED <<callstack, verif, pol, orch, varied, http>>

(***************************************************************************)
(* Deterministic tools (tools/calculations.py) on value classes: "pos",    *)
(* "zero", "neg" are numbers, "null" is None, "str", "list", "dict" are    *)
(* values of those types.  A tool gives a result or raises.                *)
(***************************************************************************)
Returned(r) == [raised |-> NoError, result |-> r]
Raised(e) == [raised |-> e, result |-> ErrorResult(e)]

IsNumber(v) == v \in {"pos", "zero", "neg"}

\* a faulty variant: zero is taken for a positive number
RejectsNegativeOnly(value, field_name) ==
    IF value = "null" \/ ~IsNumber(value) \/ value = "neg"
    THEN ValidationError(field_name)
    ELSE NoError

\* the exception validate_positive_number raises, or NoError
validate_positive_number(value, field_name) ==
    IF value = "null" \/ ~IsNumber(value) \/ value # "pos"
    THEN ValidationError(field_name)
    ELSE NoError

\* compute_dti(income, debts)
compute_dti(arguments) ==
    IF validate_positive_number(arguments.income, "income") # NoError
    THEN Raised(validate_positive_number(arguments.income, "income"))
    ELSE IF arguments.debts \notin {"null", "list"}
         THEN Raised(ToolExecutionError("compute_dti"))
         ELSE Returned(OkResult("dti_result"))

\* compute_ltv(loan_amount, property_value)
compute_ltv(arguments) ==
    IF validate_positive_number(arguments.property_value, "property_value") # NoError
    THEN Raised(validate_positive_number(arguments.property_value, "property_value"))
    ELSE IF arguments.loan_amount \in {"null", "neg"}
         THEN Raised(ValidationError("loan_amount"))
         ELSE IF ~IsNumber(arguments.loan_amount)
              THEN Raised(ToolExecutionError("compute_ltv"))
              ELSE Returned(OkResult("ltv_result"))

\* check_doc_completeness(uploaded_docs): any iterable of strings is accepted,
\* anything else raises (TypeError, AttributeError)
check_doc_completeness(arguments) ==
    IF arguments.uploaded_docs \in {"list", "str"}
    THEN Returned(OkResult("doc_result"))
    ELSE Raised([type |-> "TypeError", about |-> "uploaded_docs", retries |-> 0])

\* required = {"PAYSTUB", "BANK_STATEMENT", "ID"}
RequiredDocs == {"PAYSTUB", "BANK_STATEMENT", "ID"}

\* doc.upper() on the document names tried
Upper(doc) ==
    CASE doc = "paystub" -> "PAYSTUB"
      [] doc = "Id" -> "ID"
      [] doc = "bank_statement" -> "BANK_STATEMENT"
      [] OTHER -> doc

\* list(a_set): the elements in the order in which the process iterates
\* them, which the string hashes of the process fix; hash_order is that
\* order on the three required names
ListOfSet(a_set, hash_order) == SelectSeq(hash_order, LAMBDA d : d \in a_set)

\* a faulty variant: the names are compared as they were uploaded
ComparesAsUploaded(uploaded_docs, hash_order) ==
    LET uploaded_set == {uploaded_docs[j] : j \in 1..Len(uploaded_docs)}
        missing == ListOfSet(RequiredDocs \ uploaded_set, hash_order)
    IN  Returned([error |-> FALSE, text |-> "doc_result",
                  missing_docs |-> missing, complete |-> Len(missing) = 0])

\* check_doc_completeness on a list of names (lines 91-96)
DocCompleteness(uploaded_docs, hash_order) ==
    LET uploaded_set == {Upper(uploaded_docs[j]) : j \in 1..Len(uploaded_docs)}
        missing == ListOfSet(RequiredDocs \ uploaded_set, hash_order)
    IN  Returned([error |-> FALSE, text |-> "doc_result",
                  missing_docs |-> missing, complete |-> Len(missing) = 0])

(***************************************************************************)
(* Verification agent: agents/verification.py.                             *)
(***************************************************************************)
Min(S) == CHOOSE x \in S : \A y \in S : x <= y

\* the exception validate_tool_arguments raises, or NoError
validate_tool_arguments(tool_name, arguments) ==
    IF tool_name \notin DOMAIN TOOL_REQUIRED_ARGS
    THEN ToolExecutionError(tool_name)
    ELSE LET required == TOOL_REQUIRED_ARGS[tool_name]
             bad == {j \in 1..Len(required) :
                        \/ required[j] \notin DOMAIN arguments
                        \/ arguments[required[j]] = "null"}
         IN  IF bad = {} THEN NoError
             ELSE ValidationError(required[Min(bad)])

\* TOOL_IMPLEMENTATIONS[tool_name](**arguments): a keyword that is no
\* parameter of the tool is a TypeError
TOOL_IMPLEMENTATIONS(tool_name, arguments) ==
    IF DOMAIN arguments # {TOOL_REQUIRED_ARGS[tool_name][j] :
                              j \in 1..Len(TOOL_REQUIRED_ARGS[tool_name])}
    THEN Raised([type |-> "TypeError", about |-> tool_name, retries |-> 0])
    ELSE CASE tool_name = "compute_dti" -> compute_dti(arguments)
           [] tool_name = "compute_ltv" -> compute_ltv(arguments)
           [] OTHER -> check_doc_completeness(arguments)

\* execute_tool: validation, then the tool; ValidationError and
\* ToolExecutionError pass, any other exception becomes ToolExecutionError
execute_tool(tool_name, arguments) ==
    IF validate_tool_arguments(tool_name, arguments) # NoError
    THEN Raised(validate_tool_arguments(tool_name, arguments))
    ELSE LET out == TOOL_IMPLEMENTATIONS(tool_name, arguments)
         IN  IF out.raised.type \in {None, "ValidationError", "ToolExecutionError"}
             THEN out
             ELSE Raised(ToolExecutionError(tool_name))

Message(role, content, error, tool_calls, tool_call_id) ==
    [role |-> role, content |-> content, error |-> error,
     tool_calls |-> tool_calls, tool_call_id |-> tool_call_id]

SystemMessage(content) == Message("system", content, FALSE, <<>>, 0)
UserMessage(content) == Message("user", content, FALSE, <<>>, 0)
\* {"role": "tool", "tool_call_id": id, "content": json.dumps(result)}
ToolMessage(id, result) == Message("tool", result.text, result.error, <<>>, id)
AssistantMessage(content, tool_calls) ==
    Message("assistant", content, FALSE, tool_calls, 0)

ToolResult(id, name, arguments, result) ==
    [tool_call_id |-> id, name |-> name, arguments |-> arguments,
     result |-> result]

NoVerificationResult ==
    [dti_percent |-> None, ltv_percent |-> None, missing_docs |-> None,
     notes |-> [content |-> None, errors |-> <<>>]]

VerifIdle ==
    [pc |-> "idle", attempts |-> 0,
     app_data |-> ValidArguments("run_verification_agent"),
     i |-> 0, messages |-> <<>>, response |-> NoResponse,
     k |-> 0, tool_results |-> <<>>,
     dti_result |-> NoResult, ltv_result |-> NoResult, doc_result |-> NoResult,
     errors |-> <<>>, api_failed |-> FALSE, result |-> NoVerificationResult]

\* f"{app_data['income']:,.2f}" and the like need numbers
UserMessageFormats(app_data) ==
    /\ {"income", "debts", "loan_amount", "property_value", "uploaded_docs"}
            \subseteq DOMAIN app_data
    /\ IsNumber(app_data.income)
    /\ IsNumber(app_data.loan_amount)
    /\ IsNumber(app_data.property_value)

\* lines 154-176: the conversation is seeded, the results are empty
V_Start ==
    /\ Top = "verification"
    /\ verif.pc = "idle"
    /\ UserMessageFormats(verif.app_data)
    /\ verif' = [verif EXCEPT !.pc = "loop",
                              !.messages = <<SystemMessage("VERIFICATION_SYSTEM_PROMPT"),
                                             UserMessage("user_message")>>]
    /\ UNCHANGED <<callstack, gw, pol, orch, client, varied, http>>

\* building the user message raises (KeyError, TypeError, ValueError)
V_StartRaises ==
    /\ Top = "verification"
    /\ verif.pc = "idle"
    /\ ~UserMessageFormats(verif.app_data)
    /\ verif' = [verif EXCEPT !.pc = "raised"]
    /\ UNCHANGED <<callstack, gw, pol, orch, client, varied, http>>

\* a faulty variant: one pass too many
LoopHasNextOffByOne(i, max_iterations) == i <= max_iterations

\* for _ in range(max_iterations)
LoopHasNext(i, max_iterations) == i < max_iterations

\* response = call_with_tools(messages, VERIFICATION_TOOLS)
V_CallModel ==
    /\ Top = "verification"
    /\ verif.pc = "loop"
    /\ LoopHasNext(verif.i, max_iterations_verification)
    /\ verif' = CountAttempt([verif EXCEPT !.pc = "await", !.i = @ + 1])
    /\ gw' = GwEnter("verification", MAX_RETRIES)
    /\ UNCHANGED <<callstack, pol, orch, client, varied, http>>

\* a faulty variant: a loop that used all its iterations reports it as an
\* error
CeilingIsAnError(v) ==
    [dti_percent |-> IF Truthy(v.dti_result) THEN "dti_percent" ELSE "0.0",
     ltv_percent |-> IF Truthy(v.ltv_result) THEN "ltv_percent" ELSE "0.0",
     missing_docs |-> IF Truthy(v.doc_result) THEN "missing_docs" ELSE "[]",
     notes |-> [content |-> IF v.response.set THEN v.response.content ELSE None,
                errors |-> IF v.i >= max_iterations_verification
                           THEN Append(v.errors,
                                       [type |-> "AgentError", about |-> "ceiling",
                                        retries |-> 0])
                           ELSE v.errors]]

\* a faulty variant: the loop never sees its results as complete
NeverComplete(v) == FALSE

\* if dti_result and ltv_result and doc_result: break
AllVerificationResults(v) ==
    Truthy(v.dti_result) /\ Truthy(v.ltv_result) /\ Truthy(v.doc_result)

\* a faulty variant: what was captured is not returned
DefaultsOnly(v) ==
    [dti_percent |-> "0.0", ltv_percent |-> "0.0", missing_docs |-> "[]",
     notes |-> [content |-> IF v.response.set THEN v.response.content ELSE None,
                errors |-> v.errors]]

\* lines 251-263
VerificationResult(v) ==
    [dti_percent |-> IF Truthy(v.dti_result) THEN "dti_percent" ELSE "0.0",
     ltv_percent |-> IF Truthy(v.ltv_result) THEN "ltv_percent" ELSE "0.0",
     missing_docs |-> IF Truthy(v.doc_result) THEN "missing_docs" ELSE "[]",
     notes |-> [content |-> IF v.response.set THEN v.response.content ELSE None,
                errors |-> v.errors]]

\* the code after the loop: the result is built and returned
V_Return(v) == [v EXCEPT !.pc = "returned", !.result = VerificationResult(v)]

\* the for loop is exhausted
V_LoopExhausted ==
    /\ Top = "verification"
    /\ verif.pc = "loop"
    /\ ~LoopHasNext(verif.i, max_iterations_verification)
    /\ verif' = V_Return(verif)
    /\ UNCHANGED <<callstack, gw, pol, orch, client, varied, http>>

\* call_with_tools returns; if not response["tool_calls"]: break
V_NoToolCalls ==
    /\ Top = "verification"
    /\ verif.pc = "await"
    /\ \E r \in GwResponses :
        /\ GwReturns(r)
        /\ r.tool_calls = <<>>
        /\ verif' = V_Return([verif EXCEPT !.response = parse_response(r)])
    /\ gw' = GwIdle
    /\ UNCHANGED <<callstack, pol, orch, client, http>>

\* call_with_tools returns; tool_results = []; the for loop over
\* response["tool_calls"] starts
V_ToolCalls ==
    /\ Top = "verification"
    /\ verif.pc = "await"
    /\ \E r \in GwResponses :
        /\ GwReturns(r)
        /\ r.tool_calls # <<>>
        /\ verif' = [verif EXCEPT !.pc = "tools", !.response = parse_response(r),
                                  !.k = 1, !.tool_results = <<>>]
    /\ gw' = GwIdle
    /\ UNCHANGED <<callstack, pol, orch, client, http>>

\* a faulty variant: a failed call ends the turn
AbortTurnOnFailure(k, n, failed) == IF failed THEN n + 1 ELSE k + 1

\* the next tool call of the turn, whether or not call k failed
NextToolCall(k, n, failed) == k + 1

\* a faulty variant: the error is not accumulated
ErrorsDropped(errors, e) == errors

\* errors.append(str(e))
ErrorsAppend(errors, e) == Append(errors, e)

\* one pass of the for loop over the tool calls (lines 188-216)
V_ExecuteTool ==
    /\ Top = "verification"
    /\ verif.pc = "tools"
    /\ verif.k <= Len(verif.response.tool_calls)
    /\ LET tool_call == verif.response.tool_calls[verif.k]
           tool_name == tool_call.name
           out == execute_tool(tool_name, tool_call.arguments)
           failed == out.raised # NoError
           n == Len(verif.response.tool_calls)
       IN  verif' =
             IF ~failed
             THEN [verif EXCEPT
                     !.dti_result = IF tool_name = "compute_dti"
                                    THEN out.result ELSE @,
                     !.ltv_result = IF tool_name = "compute_ltv"
                                    THEN out.result ELSE @,
                     !.doc_result = IF tool_name = "check_doc_completeness"
                                    THEN out.result ELSE @,
                     !.tool_results =
                        Append(@, ToolResult(tool_call.id, tool_name,
                                             tool_call.arguments, out.result)),
                     !.k = NextToolCall(verif.k, n, failed)]
             ELSE [verif EXCEPT
                     !.errors = ErrorsAppend(@, out.raised),
                     !.tool_results =
                        Append(@, ToolResult(tool_call.id, tool_name,
                                             tool_call.arguments,
                                             ErrorResult(out.raised))),
                     !.k = NextToolCall(verif.k, n, failed)]
    /\ UNCHANGED <<callstack, gw, pol, orch, client, varied, http>>

\* the assistant message of verification.py and policy.py: the echoed calls
\* are built from tool_results, the arguments from response["tool_calls"][i]
EchoByIndex(tool_results, tool_calls) ==
    [j \in 1..Len(tool_results) |->
        [id |-> tool_results[j].tool_call_id,
         name |-> tool_results[j].name,
         arguments |-> tool_calls[j].arguments]]

ToolMessages(tool_results) ==
    [j \in 1..Len(tool_results) |->
        ToolMessage(tool_results[j].tool_call_id, tool_results[j].result)]

\* lines 218-245: the messages of the turn are appended, then the loop
\* breaks when the three results are there
V_AppendMessages ==
    /\ Top = "verification"
    /\ verif.pc = "tools"
    /\ verif.k > Len(verif.response.tool_calls)
    /\ LET v == [verif EXCEPT
                    !.messages = @ \o <<AssistantMessage(
                                            verif.response.content,
                                            EchoByIndex(verif.tool_results,
                                                        verif.response.tool_calls))>>
                                   \o ToolMessages(verif.tool_results)]
       IN  verif' = IF AllVerificationResults(v) THEN V_Return(v)
                    ELSE [v EXCEPT !.pc = "loop"]
    /\ UNCHANGED <<callstack, gw, pol, orch, client, varied, http>>

\* what the loops keep of an API error: str(e)
ApiErrorNote(e) == [type |-> e.type, about |-> "api", retries |-> e.retries]

\* a faulty variant: the loop goes on after the API error
VerificationResumesLoop(v) == [v EXCEPT !.pc = "loop"]

\* a faulty variant: the call that failed is made again in the same pass
VerificationRepeatsCall(v) == [v EXCEPT !.pc = "loop", !.i = @ - 1]

\* except FireworksAPIError: the loop is left, the result is built
VerificationAfterApiError(v) == V_Return(v)

\* except FireworksAPIError as e: errors.append(str(e)); the history field
\* api_failed records that this clause ran
V_ApiError ==
    /\ Top = "verification"
    /\ verif.pc = "await"
    /\ \E f \in AttemptFailures :
        /\ GwRaises(f)
        /\ verif' = VerificationAfterApiError(
                        [verif EXCEPT !.errors = Append(@, ApiErrorNote(GwRaisedError(f))),
                                      !.api_failed = TRUE])
    /\ gw' = GwIdle
    /\ UNCHANGED <<callstack, pol, orch, client, http>>

(***************************************************************************)
(* Policy agent: agents/policy.py, tools/policy.py.  The metrics are value *)
(* classes: "pos" is a number within the policy thresholds, "high" a       *)
(* number above the threshold (dti, ltv), "low" a FICO in 300..679, "out"  *)
(* a FICO outside 300..850.                                                *)
(***************************************************************************)
\* a faulty variant: the score is validated before the two ratios
ValidatesFicoFirst(dti_percent, ltv_percent, fico) ==
    IF fico \notin {"pos", "low"} THEN ValidationError("fico")
    ELSE IF dti_percent \notin {"pos", "zero", "high"} THEN ValidationError("dti_percent")
    ELSE IF ltv_percent \notin {"pos", "zero", "high"} THEN ValidationError("ltv_percent")
    ELSE NoError

\* the exception validate_policy_arguments raises, or NoError
validate_policy_arguments(dti_percent, ltv_percent, fico) ==
    IF dti_percent \notin {"pos", "zero", "high"} THEN ValidationError("dti_percent")
    ELSE IF ltv_percent \notin {"pos", "zero", "high"} THEN ValidationError("ltv_percent")
    ELSE IF fico \notin {"pos", "low"} THEN ValidationError("fico")
    ELSE NoError

\* get_policy_snippet(product): a dict lookup, which raises TypeError on an
\* unhashable key
get_policy_snippet(product) ==
    IF product \in {"list", "dict"}
    THEN Raised([type |-> "TypeError", about |-> "product", retries |-> 0])
    ELSE Returned(OkResult("policy_text"))

NoPolicyResult ==
    [decision |-> None, reason_codes |-> <<>>, explanation |-> None]

\* float("nan"), which json.loads reads from the literal NaN and which is
\* an instance of float: it stands here as a number that no sample uses
NaN == -1

\* Python's ordering comparisons of two numbers: each of them is false when
\* an operand is NaN
Gt(a, b) == a # NaN /\ b # NaN /\ a > b
Lt(a, b) == a # NaN /\ b # NaN /\ a < b
Le(a, b) == a # NaN /\ b # NaN /\ a <= b
Ge(a, b) == a # NaN /\ b # NaN /\ a >= b

\* a faulty variant: a value equal to its threshold is a breach
ThresholdBreaches(dti_percent, ltv_percent, fico) ==
    LET reason_codes ==
            (IF dti_percent >= max_dti THEN <<"DTI_EXCEEDED">> ELSE <<>>)
            \o (IF ltv_percent >= max_ltv THEN <<"LTV_EXCEEDED">> ELSE <<>>)
            \o (IF fico <= min_fico THEN <<"FICO_BELOW_MIN">> ELSE <<>>)
    IN  IF reason_codes = <<>>
        THEN [decision |-> "PASS", reason_codes |-> <<"ALL_CRITERIA_MET">>,
              explanation |-> "All criteria met"]
        ELSE [decision |-> "FAIL", reason_codes |-> reason_codes,
              explanation |-> "explanations"]

\* the deterministic evaluation of parse_policy_response (lines 214-247),
\* on numbers (percentages and scores in whole units)
DeterministicEvaluation(dti_percent, ltv_percent, fico) ==
    LET reason_codes ==
            (IF Gt(dti_percent, max_dti) THEN <<"DTI_EXCEEDED">> ELSE <<>>)
            \o (IF Gt(ltv_percent, max_ltv) THEN <<"LTV_EXCEEDED">> ELSE <<>>)
            \o (IF Lt(fico, min_fico) THEN <<"FICO_BELOW_MIN">> ELSE <<>>)
    IN  IF reason_codes = <<>>
        THEN [decision |-> "PASS", reason_codes |-> <<"ALL_CRITERIA_MET">>,
              explanation |-> "All criteria met"]
        ELSE [decision |-> "FAIL", reason_codes |-> reason_codes,
              explanation |-> "explanations"]

\* POLICY_SNIPPETS.get(product, POLICY_SNIPPETS["Standard Mortgage"]) of
\* tools/policy.py: the text retrieved for a product name
POLICY_SNIPPETS(product) ==
    IF product = "FHA Loan" THEN "FHA LOAN POLICY GUIDELINES"
    ELSE "STANDARD MORTGAGE POLICY GUIDELINES"

\* a faulty variant: the thresholds are those of the retrieved policy text
ThresholdsOfPolicyText(dti_percent, ltv_percent, fico, policy_text) ==
    IF policy_text = "FHA LOAN POLICY GUIDELINES"
    THEN LET reason_codes ==
                (IF dti_percent > 50 THEN <<"DTI_EXCEEDED">> ELSE <<>>)
                \o (IF ltv_percent > 96 THEN <<"LTV_EXCEEDED">> ELSE <<>>)
                \o (IF fico < 580 THEN <<"FICO_BELOW_MIN">> ELSE <<>>)
         IN  IF reason_codes = <<>>
             THEN [decision |-> "PASS", reason_codes |-> <<"ALL_CRITERIA_MET">>,
                   explanation |-> "All criteria met"]
             ELSE [decision |-> "FAIL", reason_codes |-> reason_codes,
                   explanation |-> "explanations"]
    ELSE DeterministicEvaluation(dti_percent, ltv_percent, fico)

\* parse_policy_response(None, dti_percent, ltv_percent, fico, policy_text):
\* the fallback (lines 214-247) has the retrieved text as an argument and
\* does not read it
DeterministicFallback(dti_percent, ltv_percent, fico, policy_text) ==
    DeterministicEvaluation(dti_percent, ltv_percent, fico)

\* a number of each value class of the three metrics
SampleValue(field, class) ==
    CASE class = "zero" -> 0
      [] class = "high" -> IF field = "dti_percent" THEN 50 ELSE 90
      [] class = "low" -> 650
      [] class = "pos" -> CASE field = "dti_percent" -> 30
                            [] field = "ltv_percent" -> 70
                            [] OTHER -> 720
      [] OTHER -> 0

\* the deterministic evaluation on the value classes of the agent runs
DeterministicPolicy(dti_percent, ltv_percent, fico) ==
    DeterministicEvaluation(SampleValue("dti_percent", dti_percent),
                            SampleValue("ltv_percent", ltv_percent),
                            SampleValue("fico", fico))

\* lines 198-204, the branch that builds the result from a JSON object: the
\* content is truthy (not null, not empty), it has a "{" and a later "}"
\* (all but "text"), and json.loads of the text between them returns (not
\* for "bad_json", where JSONDecodeError is raised and passed over)
ParsesJson(content) ==
    /\ content \notin {None, ""}
    /\ content \in {"bad_json", "json", "json_review", "json_null"}
    /\ content \in {"json", "json_review", "json_null"}

\* data = json.loads(json_str)
json_loads(content) ==
    [decision |-> CASE content = "json" -> "PASS"
                    [] content = "json_review" -> "REVIEW"
                    [] OTHER -> None,
     reason_codes |-> <<"MODEL_CODE">>,
     explanation |-> "model explanation"]

\* PolicyResult(decision=..., reason_codes=..., explanation=...) validates its
\* fields: decision is a str, so null is refused (pydantic ValidationError,
\* which is no JSONDecodeError and no KeyError)
PolicyResultValidates(data) == data.decision # None

\* parse_policy_response raises: the exception of the PolicyResult
\* constructor is not caught
parse_policy_response_raises(content) ==
    ParsesJson(content) /\ ~PolicyResultValidates(json_loads(content))

\* a faulty variant: any non-empty content is taken as the model's decision
TrustsAnyContent(content, dti_percent, ltv_percent, fico, policy_text) ==
    IF content \notin {None, ""} THEN json_loads("json")
    ELSE DeterministicPolicy(dti_percent, ltv_percent, fico)

\* parse_policy_response when it returns: a JSON object found in the content
\* gives the model's decision, anything else the deterministic evaluation
parse_policy_response(content, dti_percent, ltv_percent, fico, policy_text) ==
    IF ParsesJson(content)
    THEN json_loads(content)
    ELSE DeterministicPolicy(dti_percent, ltv_percent, fico)

ValidPolicyInput ==
    [dti_percent |-> "pos", ltv_percent |-> "pos", fico |-> "pos",
     product |-> "str"]

\* the inputs tried for a direct call of run_policy_agent
PolicyInputs ==
    {ValidPolicyInput,
     [ValidPolicyInput EXCEPT !.dti_percent = "high", !.fico = "low"],
     [ValidPolicyInput EXCEPT !.fico = "out"],
     [ValidPolicyInput EXCEPT !.ltv_percent = "neg"],
     [ValidPolicyInput EXCEPT !.fico = "null"],
     [ValidPolicyInput EXCEPT !.dti_percent = "neg", !.fico = "out"],
     [ValidPolicyInput EXCEPT !.dti_percent = "null", !.ltv_percent = "neg"],
     [ValidPolicyInput EXCEPT !.ltv_percent = "null", !.fico = "null"]}

PolIdle ==
    [pc |-> "idle", attempts |-> 0, input |-> ValidPolicyInput,
     i |-> 0, messages |-> <<>>, response |-> NoResponse,
     k |-> 0, tool_results |-> <<>>, policy_text |-> None,
     api_failed |-> FALSE, result |-> NoPolicyResult]

\* lines 99-108: invalid metrics give a FAIL result at once
P_ValidationFails ==
    /\ Top = "policy"
    /\ pol.pc = "idle"
    /\ validate_policy_arguments(pol.input.dti_percent, pol.input.ltv_percent,
                                 pol.input.fico) # NoError
    /\ pol' = [pol EXCEPT !.pc = "returned",
                          !.result = [decision |-> "FAIL",
                                      reason_codes |-> <<"VALIDATION_ERROR">>,
                                      explanation |->
                                        validate_policy_arguments(
                                            pol.input.dti_percent,
                                            pol.input.ltv_percent,
                                            pol.input.fico).about]]
    /\ UNCHANGED <<callstack, gw, verif, orch, client, varied, http>>

\* lines 110-127
P_Start ==
    /\ Top = "policy"
    /\ pol.pc = "idle"
    /\ validate_policy_arguments(pol.input.dti_percent, pol.input.ltv_percent,
                                 pol.input.fico) = NoError
    /\ pol' = [pol EXCEPT !.pc = "loop",
                          !.messages = <<SystemMessage("POLICY_SYSTEM_PROMPT"),
                                         UserMessage("user_message")>>]
    /\ UNCHANGED <<callstack, gw, verif, orch, client, varied, http>>

\* response = call_with_tools(messages, POLICY_TOOLS)
P_CallModel ==
    /\ Top = "policy"
    /\ pol.pc = "loop"
    /\ LoopHasNext(pol.i, max_iterations_policy)
    /\ pol' = CountAttempt([pol EXCEPT !.pc = "await", !.i = @ + 1])
    /\ gw' = GwEnter("policy", MAX_RETRIES)
    /\ UNCHANGED <<callstack, verif, orch, client, varied, http>>

\* a faulty variant: the content of the last response is not looked at
ContentIgnored(p) == None

\* content = response["content"] if response else None
FinalContent(p) == IF p.response.set THEN p.response.content ELSE None

\* lines 181-183: the last response's content is parsed; the exception of
\* parse_policy_response leaves run_policy_agent
P_Return(p) ==
    IF parse_policy_response_raises(FinalContent(p))
    THEN [p EXCEPT !.pc = "raised"]
    ELSE [p EXCEPT !.pc = "returned",
                   !.result = parse_policy_response(
                                 FinalContent(p),
                                 p.input.dti_percent, p.input.ltv_percent,
                                 p.input.fico, p.policy_text)]

\* the for loop is exhausted
P_LoopExhausted ==
    /\ Top = "policy"
    /\ pol.pc = "loop"
    /\ ~LoopHasNext(pol.i, max_iterations_policy)
    /\ pol' = P_Return(pol)
    /\ UNCHANGED <<callstack, gw, verif, orch, client, varied, http>>

\* call_with_tools returns; else: break
P_NoToolCalls ==
    /\ Top = "policy"
    /\ pol.pc = "await"
    /\ \E r \in GwResponses :
        /\ GwReturns(r)
        /\ r.tool_calls = <<>>
        /\ pol' = P_Return([pol EXCEPT !.response = parse_response(r)])
    /\ gw' = GwIdle
    /\ UNCHANGED <<callstack, verif, orch, client, http>>

\* call_with_tools returns; if response["tool_calls"]: tool_results = []
P_ToolCalls ==
    /\ Top = "policy"
    /\ pol.pc = "await"
    /\ \E r \in GwResponses :
        /\ GwReturns(r)
        /\ r.tool_calls # <<>>
        /\ pol' = [pol EXCEPT !.pc = "tools", !.response = parse_response(r),
                              !.k = 1, !.tool_results = <<>>]
    /\ gw' = GwIdle
    /\ UNCHANGED <<callstack, verif, orch, client, http>>

\* one pass of the for loop over the tool calls (lines 135-147): only
\* get_policy_snippet is executed and recorded
P_ExecuteTool ==
    /\ Top = "policy"
    /\ pol.pc = "tools"
    /\ pol.k <= Len(pol.response.tool_calls)
    /\ LET tool_call == pol.response.tool_calls[pol.k]
           product == IF "product" \in DOMAIN tool_call.arguments
                      THEN tool_call.arguments.product
                      ELSE pol.input.product
           out == get_policy_snippet(product)
       IN  pol' =
             IF tool_call.name = "get_policy_snippet"
             THEN [pol EXCEPT
                     !.policy_text = IF out.raised = NoError
                                     THEN out.result.text ELSE @,
                     !.tool_results =
                        Append(@, ToolResult(tool_call.id, tool_call.name,
                                             tool_call.arguments,
                                             IF out.raised = NoError
                                             THEN out.result
                                             ELSE ErrorResult(out.raised))),
                     !.k = @ + 1]
             ELSE [pol EXCEPT !.k = @ + 1]
    /\ UNCHANGED <<callstack, gw, verif, orch, client, varied, http>>

\* lines 149-172
P_AppendMessages ==
    /\ Top = "policy"
    /\ pol.pc = "tools"
    /\ pol.k > Len(pol.response.tool_calls)
    /\ pol' = [pol EXCEPT
            !.messages = @ \o <<AssistantMessage(
                                    pol.response.content,
                                    EchoByIndex(pol.tool_results,
                                                pol.response.tool_calls))>>
                           \o ToolMessages(pol.tool_results),
            !.pc = "loop"]
    /\ UNCHANGED <<callstack, gw, verif, orch, client, varied, http>>

\* except FireworksAPIError: return parse_policy_response(None, ...)
P_ApiError ==
    /\ Top = "policy"
    /\ pol.pc = "await"
    /\ \E f \in AttemptFailures : GwRaises(f)
    /\ pol' = [pol EXCEPT !.pc = "returned", !.api_failed = TRUE,
                          !.result = parse_policy_response(
                                        None, pol.input.dti_percent,
                                        pol.input.ltv_percent, pol.input.fico,
                                        pol.policy_text)]
    /\ gw' = GwIdle
    /\ UNCHANGED <<callstack, verif, orch, client, http>>

(***************************************************************************)
(* Orchestrator: agents/orchestrator.py.                                   *)
(***************************************************************************)
ORCHESTRATOR_REQUIRED ==
    [run_verification_agent |->
        <<"income", "debts", "loan_amount", "property_value", "uploaded_docs">>,
     run_policy_agent |-> <<"dti_percent", "ltv_percent", "fico">>,
     summarize_for_underwriter |->
        <<"verification_result", "policy_result", "fico">>]

\* the exception validate_orchestrator_arguments raises, or NoError: only
\* the presence of the required arguments of the three tools is checked
validate_orchestrator_arguments(tool_name, arguments) ==
    IF tool_name \notin DOMAIN ORCHESTRATOR_REQUIRED THEN NoError
    ELSE LET required == ORCHESTRATOR_REQUIRED[tool_name]
             bad == {j \in 1..Len(required) : required[j] \notin DOMAIN arguments}
         IN  IF bad = {} THEN NoError
             ELSE ValidationError(required[Min(bad)])

\* the thresholds of summarize_for_underwriter (lines 123-125), in whole
\* units
summary_max_dti == 43
summary_max_ltv == 80
summary_min_fico == 680

\* d.get(key, default), a dict being a record of its keys
Get(d, key, default) == IF key \in DOMAIN d THEN d[key] ELSE default

\* a value that is no dict has no get
IsDict(v) == "not_a_dict" \notin DOMAIN v

\* sep.join(items): the items in order, sep between two of them
RECURSIVE Join(_, _)
Join(sep, items) ==
    IF Len(items) = 0 THEN <<>>
    ELSE IF Len(items) = 1 THEN <<items[1]>>
         ELSE <<items[1], sep>> \o Join(sep, Tail(items))

\* a faulty variant: only the first missing document gets its entry
FirstConditionOnly(missing_docs) ==
    IF missing_docs # <<>>
    THEN <<<<"Missing: ", missing_docs[1]>>>>
    ELSE <<<<"All required documents present">>>>

\* lines 137-143: one "Missing: {doc}" per document of the list, in its
\* order, or the one entry that all documents are present
DocConditions(missing_docs) ==
    IF missing_docs # <<>>
    THEN [j \in 1..Len(missing_docs) |-> <<"Missing: ", missing_docs[j]>>]
    ELSE <<<<"All required documents present">>>>

\* a faulty variant: a PASS is an approval whatever the documents
NoteIgnoresDocs(decision, missing_docs, reason_codes) ==
    IF decision = "PASS"
    THEN <<"Application meets all policy criteria. Recommend approval pending standard verification.">>
    ELSE <<"Application does not meet policy criteria. Issues: ">>
         \o Join(", ", reason_codes) \o <<". Manual review required.">>

\* lines 149-156: the underwriter note, as the pieces of its text
UnderwriterNote(decision, missing_docs, reason_codes) ==
    IF decision = "PASS" /\ missing_docs = <<>>
    THEN <<"Application meets all policy criteria. Recommend approval pending standard verification.">>
    ELSE IF decision = "PASS" /\ missing_docs # <<>>
         THEN <<"Application meets financial criteria but requires additional documentation: ">>
              \o Join(", ", missing_docs)
              \o <<". Conditional approval recommended.">>
         ELSE <<"Application does not meet policy criteria. Issues: ">>
              \o Join(", ", reason_codes) \o <<". Manual review required.">>

\* lines 118-165: the summary of two dicts and a score.  Each of the three
\* metric summaries is kept as its value and its mark.
UnderwriterSummary(verification_result, policy_result, fico) ==
    LET dti == Get(verification_result, "dti_percent", 0)
        ltv == Get(verification_result, "ltv_percent", 0)
        missing_docs == Get(verification_result, "missing_docs", <<>>)
        decision == Get(policy_result, "decision", "UNKNOWN")
        explanation == Get(policy_result, "explanation", "")
    IN  [error |-> FALSE, text |-> "summary",
         dti_summary |-> [value |-> dti,
                          status |-> IF Le(dti, summary_max_dti)
                                     THEN "PASS" ELSE "FAIL"],
         ltv_summary |-> [value |-> ltv,
                          status |-> IF Le(ltv, summary_max_ltv)
                                     THEN "PASS" ELSE "FAIL"],
         fico_summary |-> [value |-> fico,
                           status |-> IF Ge(fico, summary_min_fico)
                                      THEN "PASS" ELSE "FAIL"],
         doc_conditions |-> DocConditions(missing_docs),
         policy_decision |-> <<decision, ": ", explanation>>,
         underwriter_note |->
            UnderwriterNote(decision, missing_docs,
                            Get(policy_result, "reason_codes", <<>>))]

\* summarize_for_underwriter(...).model_dump() as called by
\* execute_orchestrator_tool: the two results must be dicts
summarize_for_underwriter(arguments) ==
    IF IsDict(arguments.verification_result) /\ IsDict(arguments.policy_result)
    THEN Returned(UnderwriterSummary(arguments.verification_result,
                                     arguments.policy_result, arguments.fico))
    ELSE Raised([type |-> "AttributeError", about |-> "get", retries |-> 0])

ValidAppData ==
    [income |-> "pos", debts |-> "list", loan_amount |-> "pos",
     property_value |-> "pos", fico |-> "pos", uploaded_docs |-> "list"]

\* the application data tried for run_orchestrator
AppDataInputs == {ValidAppData, Without(ValidAppData, "fico")}

\* lines 266-273: the context needs every key, and numbers to format
ContextFormats(app_data) ==
    /\ {"income", "debts", "loan_amount", "property_value", "fico",
        "uploaded_docs"} \subseteq DOMAIN app_data
    /\ IsNumber(app_data.income)
    /\ app_data.debts = "list"
    /\ IsNumber(app_data.loan_amount)
    /\ IsNumber(app_data.property_value)

NoOrchestratorResult ==
    [response |-> None, error_msg |-> <<>>, tool_calls |-> <<>>,
     verification_result |-> NoVerificationResult,
     policy_result |-> NoPolicyResult, summary |-> NoResult,
     errors |-> <<>>]

OrchIdle ==
    [pc |-> "idle", attempts |-> 0, app_data |-> ValidAppData,
     i |-> 0, messages |-> <<>>, response |-> NoResponse,
     k |-> 0, tool_results |-> <<>>, tool_calls_trace |-> <<>>,
     verification_result |-> NoVerificationResult,
     policy_result |-> NoPolicyResult,
     final_summary |-> NoResult,
     errors |-> <<>>, api_failed |-> FALSE, result |-> NoOrchestratorResult]

\* run_orchestrator is entered when the endpoint has called it
O_Called == Top = "orchestrator" /\ http.pc = "called"

\* lines 265-285
O_Start ==
    /\ O_Called
    /\ orch.pc = "idle"
    /\ ContextFormats(orch.app_data)
    /\ orch' = [orch EXCEPT !.pc = "loop",
                            !.messages = <<SystemMessage("ORCHESTRATOR_SYSTEM_PROMPT"),
                                           UserMessage("context and user request")>>]
    /\ UNCHANGED <<callstack, gw, verif, pol, client, varied, http>>

\* building the context raises (KeyError, TypeError, ValueError)
O_StartRaises ==
    /\ O_Called
    /\ orch.pc = "idle"
    /\ ~ContextFormats(orch.app_data)
    /\ orch' = [orch EXCEPT !.pc = "raised"]
    /\ UNCHANGED <<callstack, gw, verif, pol, client, varied, http>>

\* response = call_with_tools(messages, ORCHESTRATOR_TOOLS)
O_CallModel ==
    /\ Top = "orchestrator"
    /\ orch.pc = "loop"
    /\ LoopHasNext(orch.i, max_iterations_orchestrator)
    /\ orch' = CountAttempt([orch EXCEPT !.pc = "await", !.i = @ + 1])
    /\ gw' = GwEnter("orchestrator", MAX_RETRIES)
    /\ UNCHANGED <<callstack, verif, pol, client, varied, http>>

\* final_response = response.get("content", "") if response else ""
FinalResponse(o) == IF o.response.set THEN o.response.content ELSE ""

\* a faulty variant: the errors are left out of the result
ResultWithoutErrors(o) ==
    [response |-> FinalResponse(o),
     error_msg |-> <<>>,
     tool_calls |-> o.tool_calls_trace,
     verification_result |-> o.verification_result,
     policy_result |-> o.policy_result,
     summary |-> o.final_summary,
     errors |-> <<>>]

\* lines 361-382: the response text is the last content or, when that is
\* null or empty, the formatted summary if there is one; error_msg is the
\* text made of the errors, which is appended to it
OrchestratorResult(o) ==
    [response |-> IF Truthy(o.final_summary)
                     /\ FinalResponse(o) \in {None, ""}
                  THEN "formatted_summary"
                  ELSE FinalResponse(o),
     error_msg |-> o.errors,
     tool_calls |-> o.tool_calls_trace,
     verification_result |-> o.verification_result,
     policy_result |-> o.policy_result,
     summary |-> o.final_summary,
     errors |-> o.errors]

\* the code after the loop: the result is built and returned
O_Return(o) == [o EXCEPT !.pc = "returned", !.result = OrchestratorResult(o)]

\* the for loop is exhausted
O_LoopExhausted ==
    /\ Top = "orchestrator"
    /\ orch.pc = "loop"
    /\ ~LoopHasNext(orch.i, max_iterations_orchestrator)
    /\ orch' = O_Return(orch)
    /\ UNCHANGED <<callstack, gw, verif, pol, client, varied, http>>

\* call_with_tools returns; if not response["tool_calls"]: break
O_NoToolCalls ==
    /\ Top = "orchestrator"
    /\ orch.pc = "await"
    /\ \E r \in GwResponses :
        /\ GwReturns(r)
        /\ r.tool_calls = <<>>
        /\ orch' = O_Return([orch EXCEPT !.response = parse_response(r)])
    /\ gw' = GwIdle
    /\ UNCHANGED <<callstack, verif, pol, client, http>>

\* call_with_tools returns; tool_results = []; the for loop starts
O_ToolCalls ==
    /\ Top = "orchestrator"
    /\ orch.pc = "await"
    /\ \E r \in GwResponses :
        /\ GwReturns(r)
        /\ r.tool_calls # <<>>
        /\ orch' = [orch EXCEPT !.pc = "tools", !.response = parse_response(r),
                                !.k = 1, !.tool_results = <<>>]
    /\ gw' = GwIdle
    /\ UNCHANGED <<callstack, verif, pol, client, http>>

\* a faulty variant: a failed call is left out of the trace
FailureNotTraced(o, tool_call, e) ==
    [o EXCEPT
        !.pc = "tools",
        !.errors = ErrorsAppend(@, e),
        !.tool_results = Append(@, ToolResult(tool_call.id, tool_call.name,
                                              tool_call.arguments, ErrorResult(e))),
        !.k = NextToolCall(o.k, Len(o.response.tool_calls), TRUE)]

\* a faulty variant: a failed call clears the slot of its tool
FailureClearsSlot(o, tool_call, e) ==
    [o EXCEPT
        !.pc = "tools",
        !.errors = ErrorsAppend(@, e),
        !.verification_result = IF tool_call.name = "run_verification_agent"
                                THEN NoResult ELSE @,
        !.policy_result = IF tool_call.name = "run_policy_agent"
                          THEN NoResult ELSE @,
        !.final_summary = IF tool_call.name = "summarize_for_underwriter"
                          THEN NoResult ELSE @,
        !.tool_results = Append(@, ToolResult(tool_call.id, tool_call.name,
                                              tool_call.arguments, ErrorResult(e))),
        !.tool_calls_trace = Append(@, [tool |-> tool_call.name,
                                        arguments |-> tool_call.arguments,
                                        result |-> ErrorResult(e)]),
        !.k = NextToolCall(o.k, Len(o.response.tool_calls), TRUE)]

\* lines 315-331 after a failed call: the error is logged and the call is
\* recorded with an error-shaped result
RecordFailure(o, tool_call, e) ==
    [o EXCEPT
        !.pc = "tools",
        !.errors = ErrorsAppend(@, e),
        !.tool_results = Append(@, ToolResult(tool_call.id, tool_call.name,
                                              tool_call.arguments, ErrorResult(e))),
        !.tool_calls_trace = Append(@, [tool |-> tool_call.name,
                                        arguments |-> tool_call.arguments,
                                        result |-> ErrorResult(e)]),
        !.k = NextToolCall(o.k, Len(o.response.tool_calls), TRUE)]

\* a faulty variant: a call that returned uses up an iteration of the loop
RecordCountsIteration(o, tool_call, result) ==
    [o EXCEPT
        !.pc = "tools",
        !.i = @ + 1,
        !.tool_results = Append(@, ToolResult(tool_call.id, tool_call.name,
                                              tool_call.arguments, result)),
        !.tool_calls_trace = Append(@, [tool |-> tool_call.name,
                                        arguments |-> tool_call.arguments,
                                        result |-> result]),
        !.k = o.k + 1]

\* lines 305-331 after a call that returned
RecordSuccess(o, tool_call, result) ==
    [o EXCEPT
        !.pc = "tools",
        !.tool_results = Append(@, ToolResult(tool_call.id, tool_call.name,
                                              tool_call.arguments, result)),
        !.tool_calls_trace = Append(@, [tool |-> tool_call.name,
                                        arguments |-> tool_call.arguments,
                                        result |-> result]),
        !.k = NextToolCall(o.k, Len(o.response.tool_calls), FALSE)]

O_NextCall == orch.response.tool_calls[orch.k]

O_CanExecute ==
    /\ Top = "orchestrator"
    /\ orch.pc = "tools"
    /\ orch.k <= Len(orch.response.tool_calls)

\* execute_orchestrator_tool raises before any agent is entered: validation
\* failed (ValidationError is re-raised as ToolExecutionError), the tool is
\* unknown, or summarize_for_underwriter raised
ExecuteRaises(c) ==
    \/ validate_orchestrator_arguments(c.name, c.arguments) # NoError
    \/ c.name \notin DOMAIN ORCHESTRATOR_REQUIRED
    \/ /\ c.name = "summarize_for_underwriter"
       /\ summarize_for_underwriter(c.arguments).raised # NoError

O_ToolFails ==
    /\ O_CanExecute
    /\ ExecuteRaises(O_NextCall)
    /\ orch' = RecordFailure(orch, O_NextCall, ToolExecutionError(O_NextCall.name))
    /\ UNCHANGED <<callstack, gw, verif, pol, client, varied, http>>

\* summarize_for_underwriter returned: final_summary = result
O_Summarize ==
    /\ O_CanExecute
    /\ LET c == O_NextCall
       IN  /\ c.name = "summarize_for_underwriter"
           /\ validate_orchestrator_arguments(c.name, c.arguments) = NoError
           /\ summarize_for_underwriter(c.arguments).raised = NoError
           /\ orch' = [RecordSuccess(orch, c,
                                     summarize_for_underwriter(c.arguments).result)
                         EXCEPT !.final_summary =
                                    summarize_for_underwriter(c.arguments).result]
    /\ UNCHANGED <<callstack, gw, verif, pol, client, varied, http>>

\* result = run_verification_agent(arguments): a nested run
O_CallVerification ==
    /\ O_CanExecute
    /\ LET c == O_NextCall
       IN  /\ c.name = "run_verification_agent"
           /\ validate_orchestrator_arguments(c.name, c.arguments) = NoError
           /\ verif' = [VerifIdle EXCEPT !.app_data = c.arguments]
    /\ orch' = [orch EXCEPT !.pc = "nested"]
    /\ callstack' = Append(callstack, "verification")
    /\ UNCHANGED <<gw, pol, client, varied, http>>

\* result = run_policy_agent(dti_percent=..., ltv_percent=..., fico=...,
\*                           product=arguments.get("product", "Standard Mortgage"))
O_CallPolicy ==
    /\ O_CanExecute
    /\ LET c == O_NextCall
       IN  /\ c.name = "run_policy_agent"
           /\ validate_orchestrator_arguments(c.name, c.arguments) = NoError
           /\ pol' = [PolIdle EXCEPT
                        !.input = [dti_percent |-> c.arguments.dti_percent,
                                   ltv_percent |-> c.arguments.ltv_percent,
                                   fico |-> c.arguments.fico,
                                   product |-> IF "product" \in DOMAIN c.arguments
                                               THEN c.arguments.product
                                               ELSE "str"]]
    /\ orch' = [orch EXCEPT !.pc = "nested"]
    /\ callstack' = Append(callstack, "policy")
    /\ UNCHANGED <<gw, verif, client, varied, http>>

\* the nested agent returned: result.model_dump() is tracked and recorded
O_VerificationReturns ==
    /\ Len(callstack) = 2
    /\ Top = "verification"
    /\ verif.pc = "returned"
    /\ orch' = [RecordSuccess(orch, O_NextCall, OkResult("verification_result"))
                  EXCEPT !.verification_result = verif.result]
    /\ verif' = VerifIdle
    /\ callstack' = SubSeq(callstack, 1, 1)
    /\ UNCHANGED <<gw, pol, client, varied, http>>

O_PolicyReturns ==
    /\ Len(callstack) = 2
    /\ Top = "policy"
    /\ pol.pc = "returned"
    /\ orch' = [RecordSuccess(orch, O_NextCall, OkResult("policy_result"))
                  EXCEPT !.policy_result = pol.result]
    /\ pol' = PolIdle
    /\ callstack' = SubSeq(callstack, 1, 1)
    /\ UNCHANGED <<gw, verif, client, varied, http>>

\* run_policy_agent raised: except Exception gives ToolExecutionError
O_PolicyRaises ==
    /\ Len(callstack) = 2
    /\ Top = "policy"
    /\ pol.pc = "raised"
    /\ orch' = RecordFailure(orch, O_NextCall,
                             ToolExecutionError("run_policy_agent"))
    /\ pol' = PolIdle
    /\ callstack' = SubSeq(callstack, 1, 1)
    /\ UNCHANGED <<gw, verif, client, varied, http>>

\* the nested agent raised: except Exception gives ToolExecutionError
O_VerificationRaises ==
    /\ Len(callstack) = 2
    /\ Top = "verification"
    /\ verif.pc = "raised"
    /\ orch' = RecordFailure(orch, O_NextCall,
                             ToolExecutionError("run_verification_agent"))
    /\ verif' = VerifIdle
    /\ callstack' = SubSeq(callstack, 1, 1)
    /\ UNCHANGED <<gw, pol, client, varied, http>>

\* the assistant message of orchestrator.py: built from tool_results alone
EchoOwn(tool_results) ==
    [j \in 1..Len(tool_results) |->
        [id |-> tool_results[j].tool_call_id,
         name |-> tool_results[j].name,
         arguments |-> tool_results[j].arguments]]

\* lines 333-356
O_AppendMessages ==
    /\ Top = "orchestrator"
    /\ orch.pc = "tools"
    /\ orch.k > Len(orch.response.tool_calls)
    /\ orch' = [orch EXCEPT
            !.messages = @ \o <<AssistantMessage(orch.response.content,
                                                 EchoOwn(orch.tool_results))>>
                           \o ToolMessages(orch.tool_results),
            !.pc = "loop"]
    /\ UNCHANGED <<callstack, gw, verif, pol, client, varied, http>>

\* except FireworksAPIError as e: errors.append(str(e)); the loop is left
O_ApiError ==
    /\ Top = "orchestrator"
    /\ orch.pc = "await"
    /\ \E f \in AttemptFailures :
        /\ GwRaises(f)
        /\ orch' = O_Return(
                      [orch EXCEPT !.errors = Append(@, ApiErrorNote(GwRaisedError(f))),
                                   !.api_failed = TRUE])
    /\ gw' = GwIdle
    /\ UNCHANGED <<callstack, verif, pol, client, http>>

(***************************************************************************)
(* The endpoint POST /orchestrator: main.orchestrator_endpoint.  It is the *)
(* caller of the run_orchestrator activation at the bottom of callstack.   *)
(***************************************************************************)
HTTP_OK == 200
HTTP_ERROR == 500

\* status 0: no response sent yet
HttpIdle == [pc |-> "idle", api_key |-> TRUE, status |-> 0, body |-> <<>>]

\* lines 74-78: without FIREWORKS_API_KEY the request is refused
E_NoApiKey ==
    /\ callstack = <<"orchestrator">>
    /\ http.pc = "idle"
    /\ ~http.api_key
    /\ http' = [http EXCEPT !.pc = "responded", !.status = HTTP_ERROR,
                             !.body = [detail |-> "not configured"]]
    /\ UNCHANGED <<callstack, gw, verif, pol, orch, client, varied>>

\* lines 80-85: result = run_orchestrator(...)
E_Call ==
    /\ callstack = <<"orchestrator">>
    /\ http.pc = "idle"
    /\ http.api_key
    /\ http' = [http EXCEPT !.pc = "called"]
    /\ UNCHANGED <<callstack, gw, verif, pol, orch, client, varied>>

\* OrchestratorResponse(response=..., ...) validates its fields: response is
\* a str, so None is refused; the other fields take what run_orchestrator
\* gives.  The text of the result is its response followed by error_msg.
OrchestratorResponseValidates(result) ==
    result.response # None \/ result.error_msg # <<>>

\* lines 80-99: the result is returned as the response; except Exception
\* turns an exception of run_orchestrator or of the response model into
\* HTTPException(status_code=500)
StatusFor(o) ==
    IF o.pc = "raised" \/ ~OrchestratorResponseValidates(o.result)
    THEN HTTP_ERROR
    ELSE HTTP_OK

\* class OrchestratorResponse (lines 25-31) and its construction (lines
\* 87-93): the body has the five fields of the response model, each read
\* from the result of run_orchestrator; the text of the response is the
\* final content followed by the error_msg that run_orchestrator appended
OrchestratorResponse(result) ==
    [response |-> [content |-> result.response, error_msg |-> result.error_msg],
     tool_calls |-> result.tool_calls,
     verification_result |-> result.verification_result,
     policy_result |-> result.policy_result,
     summary |-> result.summary]

\* lines 95-99: the body of an HTTPException
ErrorBody == [detail |-> "Orchestrator error"]

E_Respond ==
    /\ callstack = <<"orchestrator">>
    /\ http.pc = "called"
    /\ orch.pc \in {"returned", "raised"}
    /\ http' = [http EXCEPT !.pc = "responded", !.status = StatusFor(orch),
                             !.body = IF StatusFor(orch) = HTTP_OK
                                      THEN OrchestratorResponse(orch.result)
                                      ELSE ErrorBody]
    /\ UNCHANGED <<callstack, gw, verif, pol, orch, client, varied>>

(***************************************************************************)
(* The runs.                                                               *)
(***************************************************************************)
Roots == {"client", "verification", "policy", "orchestrator"}

Init ==
    /\ callstack \in {<<r>> : r \in Roots}
    /\ gw = GwIdle
    /\ verif = VerifIdle
    /\ pol \in {[PolIdle EXCEPT !.input = x] :
                  x \in IF callstack[1] = "policy" THEN PolicyInputs
                        ELSE {ValidPolicyInput}}
    /\ orch \in {[OrchIdle EXCEPT !.app_data = x] :
                   x \in IF callstack[1] = "orchestrator" THEN AppDataInputs
                         ELSE {ValidAppData}}
    /\ client = ClientIdle
    /\ varied = 0
    /\ http \in {[HttpIdle EXCEPT !.api_key = x] :
                   x \in IF callstack[1] = "orchestrator" THEN BOOLEAN
                         ELSE {TRUE}}

Gateway == AttemptReturns \/ AttemptRetries \/ AttemptRaises

Client == ClientCall \/ ClientResumes

Verification ==
    \/ V_Start \/ V_StartRaises \/ V_CallModel \/ V_LoopExhausted
    \/ V_NoToolCalls \/ V_ToolCalls \/ V_ExecuteTool \/ V_AppendMessages
    \/ V_ApiError

Policy ==
    \/ P_ValidationFails \/ P_Start \/ P_CallModel \/ P_LoopExhausted
    \/ P_NoToolCalls \/ P_ToolCalls \/ P_ExecuteTool \/ P_AppendMessages
    \/ P_ApiError

Orchestrator ==
    \/ O_Start \/ O_StartRaises \/ O_CallModel \/ O_LoopExhausted
    \/ O_NoToolCalls \/ O_ToolCalls \/ O_ToolFails \/ O_Summarize
    \/ O_CallVerification \/ O_CallPolicy \/ O_VerificationReturns
    \/ O_PolicyReturns \/ O_VerificationRaises \/ O_PolicyRaises
    \/ O_AppendMessages
    \/ O_ApiError

Endpoint == E_NoApiKey \/ E_Call \/ E_Respond

Next ==
    Gateway \/ Client \/ Verification \/ Policy \/ Orchestrator \/ Endpoint

Spec == Init /\ [][Next]_vars

\* the gateway alone, called directly
GatewayInit ==
    /\ callstack = <<"client">>
    /\ gw = GwIdle
    /\ verif = VerifIdle
    /\ pol = PolIdle
    /\ orch = OrchIdle
    /\ client = ClientIdle
    /\ varied = 0
    /\ http = HttpIdle

GatewayNext == Gateway \/ Client

GatewaySpec == GatewayInit /\ [][GatewayNext]_vars

\* The program is one synchronous thread: a step that can be taken is taken,
\* and every gateway attempt ends (it succeeds or it fails).
FairSpec == Spec /\ WF_vars(Next)

\* the deterministic policy evaluation alone, on numbers around the
\* thresholds: parse_policy_response(None, dti_percent, ltv_percent, fico,
\* None)
PolicySamples ==
    [dti_percent : {0, 30, 50} \cup ((max_dti - Spread)..(max_dti + Spread)),
     ltv_percent : {0, 70, 90} \cup ((max_ltv - Spread)..(max_ltv + Spread)),
     fico : {300, 650, 720, 850} \cup ((min_fico - Spread)..(min_fico + Spread)),
     product : {"Standard Mortgage", "FHA Loan"}]

\* the policy text the run holds when it falls back: none, or the text
\* retrieved for its product
EvaluationInit ==
    /\ callstack = <<"policy">>
    /\ gw = GwIdle
    /\ verif = VerifIdle
    /\ pol \in {[PolIdle EXCEPT !.input = x, !.policy_text = t] :
                    x \in PolicySamples,
                    t \in {None, "STANDARD MORTGAGE POLICY GUIDELINES",
                           "FHA LOAN POLICY GUIDELINES"}}
    /\ orch = OrchIdle
    /\ client = ClientIdle
    /\ varied = 0
    /\ http = HttpIdle

P_Evaluate ==
    /\ pol.pc = "idle"
    /\ pol' = [pol EXCEPT !.pc = "returned",
                          !.result = DeterministicFallback(
                                        pol.input.dti_percent,
                                        pol.input.ltv_percent, pol.input.fico,
                                        pol.policy_text)]
    /\ UNCHANGED <<callstack, gw, verif, orch, client, varied, http>>

EvaluationSpec == EvaluationInit /\ [][P_Evaluate]_vars

\* summarize_for_underwriter alone, as the orchestrator executes it: the two
\* dicts and the score are whatever the model wrote in the tool call
DocLists == UNION {[1..n -> {"PAYSTUB", "ID"}] : n \in 0..MaxDocs}

SummaryInputs ==
    LET numbers == [dti_percent : {summary_max_dti, summary_max_dti + Spread},
                    ltv_percent : {70}]
        verifications ==
            numbers \cup
            {[dti_percent |-> n.dti_percent, ltv_percent |-> n.ltv_percent,
              missing_docs |-> m] : n \in numbers, m \in DocLists}
        codes == {<<>>, <<"DTI_EXCEEDED">>, <<"DTI_EXCEEDED", "LOW_FICO">>}
        policies ==
            [reason_codes : codes, explanation : {"explanations"}] \cup
            [decision : {"PASS", "FAIL", "REVIEW"}, reason_codes : codes,
             explanation : {"explanations"}]
    IN  [verification_result : verifications, policy_result : policies,
         fico : {720}]

SummaryInit ==
    /\ callstack = <<"orchestrator">>
    /\ gw = GwIdle
    /\ verif = VerifIdle
    /\ pol = PolIdle
    /\ orch \in {[OrchIdle EXCEPT
                    !.pc = "tools", !.i = 1, !.k = 1,
                    !.messages = <<SystemMessage("ORCHESTRATOR_SYSTEM_PROMPT"),
                                   UserMessage("context and user request")>>,
                    !.response = parse_response(
                        [content |-> None,
                         tool_calls |-> WithIds(
                            <<Call("summarize_for_underwriter", x)>>)])] :
                 x \in SummaryInputs}
    /\ client = ClientIdle
    /\ varied = 0
    /\ http = [HttpIdle EXCEPT !.pc = "called"]

SummarySpec == SummaryInit /\ [][O_Summarize]_vars

\* The deterministic evaluation and summarize_for_underwriter applied to the
\* same three numbers: the values about each threshold, zero and NaN.
AgreementSamples ==
    [dti_percent : {NaN, 0} \cup ((max_dti - Spread)..(max_dti + Spread)),
     ltv_percent : {NaN, 0} \cup ((max_ltv - Spread)..(max_ltv + Spread)),
     fico : {NaN} \cup ((min_fico - Spread)..(min_fico + Spread))]

AgreementInit ==
    /\ callstack = <<"orchestrator">>
    /\ gw = GwIdle
    /\ verif = VerifIdle
    /\ client = ClientIdle
    /\ varied = 0
    /\ http = [HttpIdle EXCEPT !.pc = "called"]
    /\ \E x \in AgreementSamples :
         /\ pol = [PolIdle EXCEPT
                     !.input = [dti_percent |-> x.dti_percent,
                                ltv_percent |-> x.ltv_percent,
                                fico |-> x.fico,
                                product |-> "Standard Mortgage"]]
         /\ orch = [OrchIdle EXCEPT
                      !.pc = "tools", !.i = 1, !.k = 1,
                      !.messages = <<SystemMessage("ORCHESTRATOR_SYSTEM_PROMPT"),
                                     UserMessage("context and user request")>>,
                      !.response = parse_response(
                          [content |-> None,
                           tool_calls |-> WithIds(
                              <<Call("summarize_for_underwriter",
                                     [verification_result |->
                                         [dti_percent |-> x.dti_percent,
                                          ltv_percent |-> x.ltv_percent,
                                          missing_docs |-> <<>>],
                                      policy_result |->
                                         [decision |-> "REVIEW",
                                          reason_codes |-> <<>>,
                                          explanation |-> "explanations"],
                                      fico |-> x.fico])>>)])]

AgreementSpec == AgreementInit /\ [][P_Evaluate \/ O_Summarize]_vars

\* The three tools of tools/calculations.py called directly, each call
\* repeated in the same process: the two calculations on value classes of
\* their arguments, check_doc_completeness on lists of names.
UploadedLists ==
    UNION {[1..n -> {"PAYSTUB", "paystub", "Id", "bank_statement", "W2"}] :
            n \in 0..MaxUploaded}

\* the orders in which a process may iterate the required names
HashOrders ==
    {h \in [1..3 -> RequiredDocs] : {h[1], h[2], h[3]} = RequiredDocs}

DirectCalls ==
    {Call("compute_dti", a) :
        a \in [income : {"pos", "zero", "neg", "null", "str"},
               debts : {"list", "null", "str"}]}
    \cup {Call("compute_ltv", a) :
            a \in [loan_amount : {"pos", "zero", "neg", "null", "str"},
                   property_value : {"pos", "zero", "neg", "null", "str"}]}
    \cup {Call("check_doc_completeness", [uploaded_docs |-> u]) :
            u \in UploadedLists}

ToolInit ==
    /\ callstack = <<"client">>
    /\ gw = GwIdle
    /\ verif = VerifIdle
    /\ pol = PolIdle
    /\ orch = OrchIdle
    /\ client \in {[pc |-> "idle", calls |-> 0, outcomes |-> <<>>,
                     tool_call |-> c, hash_order |-> h] :
                        c \in DirectCalls, h \in HashOrders}
    /\ varied = 0
    /\ http = HttpIdle

\* the function of the tool is called with the arguments
T_Call ==
    /\ client.calls < MaxRepeats
    /\ LET c == client.tool_call
           out == CASE c.name = "compute_dti" -> compute_dti(c.arguments)
                    [] c.name = "compute_ltv" -> compute_ltv(c.arguments)
                    [] OTHER -> DocCompleteness(c.arguments.uploaded_docs,
                                                client.hash_order)
       IN  client' = [client EXCEPT !.calls = @ + 1,
                                    !.outcomes = Append(@, out)]
    /\ UNCHANGED <<callstack, gw, verif, pol, orch, varied, http>>

ToolSpec == ToolInit /\ [][T_Call]_vars

(***************************************************************************)
(* Properties of the agent loops.                                          *)
(***************************************************************************)
\* a turn with tool calls is over: its messages are in the conversation
TurnDone(f) ==
    /\ f.pc \in {"loop", "await", "returned"}
    /\ f.response.tool_calls # <<>>

\* every request of the turn has its record, in request order
AllRecorded(f) ==
    /\ Len(f.tool_results) = Len(f.response.tool_calls)
    /\ \A j \in 1..Len(f.tool_results) :
        /\ f.tool_results[j].tool_call_id = f.response.tool_calls[j].id
        /\ f.tool_results[j].name = f.response.tool_calls[j].name

\* the turn that is over had a failed tool call
TurnFailed(f) ==
    /\ TurnDone(f)
    /\ \E j \in 1..Len(f.tool_results) : f.tool_results[j].result.error

\* C1: in every run of each agent loop the number of call_with_tools
\* invocations made by the loop never exceeds its ceiling (policy 3,
\* verification 5, orchestrator 10), whatever the model requests per turn and
\* whichever tool calls fail.
C1_CeilingNeverExceeded ==
    /\ pol.i <= max_iterations_policy
    /\ verif.i <= max_iterations_verification
    /\ orch.i <= max_iterations_orchestrator

\* the orchestrator made its tenth model call, in a run with a turn of two
\* tool calls one of which failed, and the loop ended there
C1_Witness ==
    /\ orch.pc = "returned"
    /\ orch.i = max_iterations_orchestrator
    /\ orch.errors # <<>>
    /\ Len(orch.response.tool_calls) > 1

\* a call of the orchestrator fails: execute_orchestrator_tool raises, or the
\* nested verification agent does
OrchestratorCallFails(c) ==
    \/ ExecuteRaises(c)
    \/ c.name = "run_verification_agent" /\ ~UserMessageFormats(c.arguments)

\* run_policy_agent raises or returns, as the model's final content has it
OrchestratorCallMayFail(c) ==
    OrchestratorCallFails(c) \/ c.name = "run_policy_agent"

\* C2: within one turn of the verification or orchestrator loop, when a tool
\* call fails (validation error or tool-execution error) every other call of
\* the turn, before and after it, is still executed and recorded, and the
\* failed call is recorded with an error-shaped result.
C2_FailureDoesNotStopTurn ==
    /\ verif.pc = "tools" => Len(verif.tool_results) = verif.k - 1
    /\ orch.pc = "tools" => Len(orch.tool_results) = orch.k - 1
    /\ TurnDone(verif) =>
        /\ AllRecorded(verif)
        /\ \A j \in 1..Len(verif.tool_results) :
            verif.tool_results[j].result.error
                = (execute_tool(verif.response.tool_calls[j].name,
                                verif.response.tool_calls[j].arguments).raised
                   # NoError)
    /\ TurnDone(orch) =>
        /\ AllRecorded(orch)
        /\ \A j \in 1..Len(orch.tool_results) :
            /\ OrchestratorCallFails(orch.response.tool_calls[j])
                    => orch.tool_results[j].result.error
            /\ orch.tool_results[j].result.error
                    => OrchestratorCallMayFail(orch.response.tool_calls[j])

\* a verification turn whose first call failed and whose second call was
\* executed and gave a result
C2_Witness ==
    /\ TurnDone(verif)
    /\ Len(verif.tool_results) = 2
    /\ verif.tool_results[1].result.error
    /\ ~verif.tool_results[2].result.error
    /\ Truthy(verif.dti_result)

\* the failed calls of the turn are in the accumulated errors and their
\* error-shaped results are in the conversation
FailuresKept(f) ==
    \A j \in 1..Len(f.tool_results) :
        f.tool_results[j].result.error =>
            /\ \E h \in 1..Len(f.errors) :
                    ErrorResult(f.errors[h]) = f.tool_results[j].result
            /\ f.messages[Len(f.messages) - Len(f.tool_results) + j]
                    = ToolMessage(f.response.tool_calls[j].id,
                                  f.tool_results[j].result)

\* the loop was left right after the turn that is over
LeftAfterTurn(f) == TurnDone(f) /\ f.pc = "returned" /\ ~f.api_failed

\* C3 as stated: a ValidationError or ToolExecutionError never aborts an
\* agent loop; after a turn with failed calls the errors are accumulated, the
\* error-shaped results are appended, and the loop goes on to the next model
\* call when the ceiling is not reached.
C3_LoopGoesOnAfterFailure ==
    /\ TurnFailed(verif) =>
        /\ FailuresKept(verif)
        /\ LeftAfterTurn(verif) => verif.i = max_iterations_verification
    /\ TurnFailed(orch) =>
        /\ FailuresKept(orch)
        /\ LeftAfterTurn(orch) => orch.i = max_iterations_orchestrator

\* C3 amended: the same, except that the verification loop ends after such
\* a turn when the three results (dti, ltv, documents) have all been
\* captured.
C3_LoopGoesOnUnlessResultsComplete ==
    /\ TurnFailed(verif) =>
        /\ FailuresKept(verif)
        /\ LeftAfterTurn(verif) /\ ~AllVerificationResults(verif)
                => verif.i = max_iterations_verification
        /\ verif.pc = "loop" => ~AllVerificationResults(verif)
    /\ TurnFailed(orch) =>
        /\ FailuresKept(orch)
        /\ LeftAfterTurn(orch) => orch.i = max_iterations_orchestrator

\* after a turn with a failed call the verification loop made its next model
\* call
C3_Witness ==
    /\ TurnFailed(verif)
    /\ verif.pc = "await"
    /\ verif.i = 2
    /\ Len(verif.errors) = 1

\* C4: in each of the three loops, once the gateway has raised an API error
\* the loop invocation makes no further model call and executes no further
\* tool call; it goes directly to building its result.
C4_ApiErrorEndsLoop ==
    [][/\ verif'.api_failed => verif'.pc = "returned"
       /\ pol'.api_failed => pol'.pc = "returned"
       /\ orch'.api_failed => orch'.pc = "returned"
       /\ verif.api_failed => verif' \in {verif, VerifIdle}
       /\ pol.api_failed => pol' \in {pol, PolIdle}
       /\ orch.api_failed => orch' = orch
       /\ (verif.api_failed \/ pol.api_failed \/ orch.api_failed)
            => gw' = gw]_vars

\* the verification loop ended on an API error of its third model call,
\* after two turns of tool calls
C4_Witness ==
    /\ verif.api_failed
    /\ verif.pc = "returned"
    /\ verif.i = 3
    /\ Len(verif.errors) = 1
    /\ Truthy(verif.dti_result)

(***************************************************************************)
(* Properties of the gateway.                                              *)
(***************************************************************************)
\* an attempt of the running call has failed in this step
AttemptFailed == gw.status = "running" /\ gw'.tries = gw.tries + 1
                    /\ gw'.status # "returned"

\* C5: call_with_tools retries only after a failure classified as transient;
\* a failure classified as non-transient, on the first or a later attempt,
\* ends the call at once with FireworksAPIError, with no wait and no further
\* attempt.
C5_RetriesOnlyTransient ==
    [][/\ AttemptFailed /\ gw'.status = "running"
            => is_retryable(gw'.last_error)
       /\ AttemptFailed /\ ~is_retryable(gw'.last_error)
            => /\ gw'.status = "raised"
               /\ gw'.raised.type = "FireworksAPIError"
               /\ gw'.slept = gw.slept
       /\ gw.status = "raised"
            => gw'.status = "running" \/ gw'.tries = gw.tries]_vars

\* a call ended on a non-transient failure of its second attempt, after one
\* retry
C5_Witness ==
    /\ gw.status = "raised"
    /\ ~is_retryable(gw.last_error)
    /\ gw.tries = 2
    /\ Len(gw.slept) = 1

\* C6: call_with_tools makes at most max_retries + 1 attempts; when every
\* attempt fails transiently it raises FireworksAPIError with retries =
\* max_retries; whenever it raises, retries is the number of retries
\* performed before the attempt that raised.
C6_AttemptsAndRetries ==
    /\ gw.tries <= gw.max_retries + 1
    /\ gw.status = "raised" =>
        /\ gw.raised.type = "FireworksAPIError"
        /\ gw.raised.retries = gw.tries - 1
        /\ gw.raised.retries = Len(gw.slept)
        /\ is_retryable(gw.last_error) => gw.raised.retries = gw.max_retries

\* a call with the default max_retries whose three attempts all failed
\* transiently
C6_Witness ==
    /\ gw.status = "raised"
    /\ gw.max_retries = MAX_RETRIES
    /\ is_retryable(gw.last_error)
    /\ gw.tries = MAX_RETRIES + 1

\* C7: within one call the gateway waits exactly once before each retry and
\* never after the attempt that returns or raises; the waits start at the
\* initial delay and double at each retry, so they are strictly increasing;
\* every new call starts again from the initial delay.
C7_BackoffSchedule ==
    /\ gw.status = "running" => Len(gw.slept) = gw.tries
    /\ gw.status \in {"returned", "raised"} => Len(gw.slept) = gw.tries - 1
    /\ \A j \in 1..Len(gw.slept) :
        /\ gw.slept[j] = INITIAL_BACKOFF * BACKOFF_MULTIPLIER ^ (j - 1)
        /\ j > 1 => gw.slept[j] > gw.slept[j - 1]

\* a second call that waited twice, after a first call that had waited too
C7_Witness ==
    /\ Len(client.outcomes) = 1
    /\ Len(client.outcomes[1].slept) >= 2
    /\ client.pc = "await"
    /\ Len(gw.slept) = 2

\* C8: a tool call whose argument payload is not valid JSON makes the
\* gateway call fail with a parse error distinct from the API error: not
\* turned into FireworksAPIError, not retried, not swallowed.
C8_ParseErrorDistinct ==
    gw.cause = "parse" =>
        /\ gw.status = "raised"
        /\ gw.raised.type = "ValueError"

(***************************************************************************)
(* Properties of the tool turns of the three loops.                        *)
(***************************************************************************)
\* every request with a name that is no tool of the agent has an
\* error-shaped record, and every request has a record
UnknownCallsFail(f, agent) ==
    /\ AllRecorded(f)
    /\ \A j \in 1..Len(f.tool_results) :
        f.response.tool_calls[j].name \notin ToolNames(agent)
            => f.tool_results[j].result.error

\* C9: in every agent loop a requested call whose name is not one of the
\* agent's tools fails with a recorded tool-execution error and gets an
\* error-shaped tool result; no requested call is skipped without a result.
C9_UnknownToolFails ==
    /\ TurnDone(verif) => UnknownCallsFail(verif, "verification")
    /\ TurnDone(orch) => UnknownCallsFail(orch, "orchestrator")
    /\ TurnDone(pol) => UnknownCallsFail(pol, "policy")

\* the messages a turn adds: one assistant message echoing the ids of the
\* requests in order, then one tool-result message per request, in order,
\* with the id of the request
TurnEchoed(f) ==
    LET n == Len(f.response.tool_calls)
        base == Len(f.messages) - n
    IN  /\ base >= 1
        /\ f.messages[base].role = "assistant"
        /\ Len(f.messages[base].tool_calls) = n
        /\ \A j \in 1..n :
            /\ f.messages[base].tool_calls[j].id = f.response.tool_calls[j].id
            /\ f.messages[base + j].role = "tool"
            /\ f.messages[base + j].tool_call_id = f.response.tool_calls[j].id

\* C10: for every turn with tool calls, in every agent loop, the
\* conversation gains one assistant message echoing the ids of all requests
\* in request order, followed by one tool-result message per request, in the
\* same order, each with the id of its request.
C10_TurnEchoesRequests ==
    /\ TurnDone(verif) => TurnEchoed(verif)
    /\ TurnDone(orch) => TurnEchoed(orch)
    /\ TurnDone(pol) => TurnEchoed(pol)

(***************************************************************************)
(* Properties of how the loops end.                                        *)
(***************************************************************************)
\* the activation holds a response without tool calls
HasFinalResponse(f) == f.response.set /\ f.response.tool_calls = <<>>

\* in this step the activation f, which becomes g, received a response
\* without tool calls
GotFinalResponse(f, g) == f.pc = "await" /\ HasFinalResponse(g)

\* the loop ended in the step that received the response: no model call was
\* made and the conversation is as it was
EndsAtOnce(f, g) ==
    GotFinalResponse(f, g) =>
        /\ g.pc \in {"returned", "raised"}
        /\ g.i = f.i
        /\ g.messages = f.messages

ThreeCaptured(v) ==
    /\ v.dti_result # NoResult /\ ~v.dti_result.error
    /\ v.ltv_result # NoResult /\ ~v.ltv_result.error
    /\ v.doc_result # NoResult /\ ~v.doc_result.error

\* C12: the verification loop stops, without another model call, at the end
\* of the first turn after which a DTI result, an LTV result and a
\* document-completeness result have all been captured, even when fewer than
\* 5 iterations have run and even if the three were captured in different
\* turns.
C12_VerificationShortCircuit ==
    /\ verif.pc \in {"loop", "await"} => ~ThreeCaptured(verif)
    /\ verif.pc = "returned" /\ ThreeCaptured(verif) =>
        /\ verif.result.dti_percent = "dti_percent"
        /\ verif.result.ltv_percent = "ltv_percent"
        /\ verif.result.missing_docs = "missing_docs"

\* the loop ended after its third turn, of one tool call, with the three
\* results captured one per turn
C12_Witness ==
    /\ verif.pc = "returned"
    /\ ~verif.api_failed
    /\ ThreeCaptured(verif)
    /\ verif.i = 3
    /\ verif.i < max_iterations_verification
    /\ Len(verif.tool_results) = 1
    /\ verif.tool_results[1].name = "check_doc_completeness"

\* the verification result, the policy result and the underwriter summary
\* have been captured
AllOrchestratorResults(o) ==
    /\ o.verification_result # NoVerificationResult
    /\ o.policy_result # NoPolicyResult
    /\ Truthy(o.final_summary)

\* C13: the orchestrator loop short-circuits: once the verification result,
\* the policy result and the underwriter summary have all been captured, it
\* makes no further model call, even below its ceiling of 10.
C13_OrchestratorShortCircuit ==
    orch.pc = "await" => ~AllOrchestratorResults(orch)

(***************************************************************************)
(* Properties of the policy agent.                                         *)
(***************************************************************************)
\* the content holds no valid JSON object: null, empty, prose, or braces
\* around text that is not JSON
NoJsonObject(content) == content \in {None, "", "text", "bad_json"}

\* the metrics passed validation
PolicyInputValid(p) ==
    validate_policy_arguments(p.input.dti_percent, p.input.ltv_percent,
                              p.input.fico) = NoError

\* C14: run_policy_agent returns the deterministic threshold evaluation of
\* its own (dti_percent, ltv_percent, fico) whenever the gateway raised an API
\* error in any iteration, or the final model content is empty or contains
\* no valid JSON object; a model-derived decision is returned only when a
\* JSON object was parsed from the final content.
C14_PolicyFallback ==
    pol.pc = "returned" /\ PolicyInputValid(pol) =>
        /\ pol.api_failed \/ NoJsonObject(FinalContent(pol))
            => pol.result = DeterministicPolicy(pol.input.dti_percent,
                                                pol.input.ltv_percent,
                                                pol.input.fico)
        /\ pol.result.reason_codes = <<"MODEL_CODE">>
            => ~pol.api_failed /\ ~NoJsonObject(FinalContent(pol))

\* the gateway raised on the second model call, after a turn of tool calls:
\* the metrics with a high DTI and a low FICO got the deterministic FAIL
C14_Witness ==
    /\ pol.pc = "returned"
    /\ pol.api_failed
    /\ pol.i = 2
    /\ pol.result.decision = "FAIL"
    /\ pol.result.reason_codes = <<"DTI_EXCEEDED", "FICO_BELOW_MIN">>

\* the position of a reason code in the order of the three checks
CodeRank(code) ==
    CASE code = "DTI_EXCEEDED" -> 1
      [] code = "LTV_EXCEEDED" -> 2
      [] code = "FICO_BELOW_MIN" -> 3
      [] OTHER -> 0

HasCode(codes, code) == \E j \in 1..Len(codes) : codes[j] = code

\* C15: the deterministic policy fallback, for all (dti, ltv, fico): the
\* reason codes contain DTI_EXCEEDED iff dti > 43, LTV_EXCEEDED iff ltv > 80,
\* FICO_BELOW_MIN iff fico < 680, in that order and nothing else; when none
\* applies the reason codes are exactly [ALL_CRITERIA_MET]; the decision is
\* PASS iff no threshold is breached and FAIL otherwise (values equal to a
\* threshold pass).
C15_DeterministicFallback ==
    pol.pc = "returned" =>
        LET codes == pol.result.reason_codes
            breached == \/ pol.input.dti_percent > 43
                        \/ pol.input.ltv_percent > 80
                        \/ pol.input.fico < 680
        IN  /\ HasCode(codes, "DTI_EXCEEDED") <=> pol.input.dti_percent > 43
            /\ HasCode(codes, "LTV_EXCEEDED") <=> pol.input.ltv_percent > 80
            /\ HasCode(codes, "FICO_BELOW_MIN") <=> pol.input.fico < 680
            /\ breached =>
                /\ \A j \in 1..Len(codes) : CodeRank(codes[j]) > 0
                /\ \A j \in 1..Len(codes) : \A k \in 1..Len(codes) :
                        j < k => CodeRank(codes[j]) < CodeRank(codes[k])
            /\ ~breached => codes = <<"ALL_CRITERIA_MET">>
            /\ pol.result.decision = IF breached THEN "FAIL" ELSE "PASS"

\* the metrics that sit on the three thresholds passed
C15_Witness ==
    /\ pol.pc = "returned"
    /\ pol.input.dti_percent = 43
    /\ pol.input.ltv_percent = 80
    /\ pol.input.fico = 680
    /\ pol.result.decision = "PASS"
    /\ pol.result.reason_codes = <<"ALL_CRITERIA_MET">>

\* C16: every PolicyResult returned by run_policy_agent, on every path
\* (input validation failure, model-derived JSON, deterministic fallback),
\* has a decision that is either PASS or FAIL.
C16_DecisionPassOrFail ==
    pol.pc = "returned" => pol.result.decision \in {"PASS", "FAIL"}

(***************************************************************************)
(* Properties of the results after failures.                               *)
(***************************************************************************)
\* in this step the gateway raised an API error to the loop of f, which
\* becomes g
ApiErrorRaised(f, g) == ~f.api_failed /\ g.api_failed

\* a result field holds the captured tool output, or its default
KeptOrDefault(value, captured, kept, default) ==
    value = IF captured # NoResult THEN kept ELSE default

\* C17: when the gateway raises an API error during the verification loop,
\* run_verification_agent still returns normally: every tool output captured
\* in earlier turns is kept in the result, uncaptured ones take the defaults,
\* and the API error text is included in the notes.
C17_VerificationPartialResults ==
    [][ApiErrorRaised(verif, verif') =>
        /\ verif'.pc = "returned"
        /\ KeptOrDefault(verif'.result.dti_percent, verif.dti_result,
                         "dti_percent", "0.0")
        /\ KeptOrDefault(verif'.result.ltv_percent, verif.ltv_result,
                         "ltv_percent", "0.0")
        /\ KeptOrDefault(verif'.result.missing_docs, verif.doc_result,
                         "missing_docs", "[]")
        /\ Len(verif'.result.notes.errors) = Len(verif.errors) + 1
        /\ SubSeq(verif'.result.notes.errors, 1, Len(verif.errors))
                = verif.errors
        /\ verif'.result.notes.errors[Len(verif.errors) + 1].type
                = "FireworksAPIError"]_vars

\* the gateway raised on the second model call, after a turn that captured
\* the DTI result alone
C17_Witness ==
    /\ verif.api_failed
    /\ verif.pc = "returned"
    /\ verif.i = 2
    /\ verif.result.dti_percent = "dti_percent"
    /\ verif.result.ltv_percent = "0.0"
    /\ verif.result.missing_docs = "[]"
    /\ Len(verif.result.notes.errors) = 1

\* C18: whenever run_verification_agent returns a defaulted value (0.0 for
\* DTI or LTV, or an empty missing-docs list) because the corresponding tool
\* output was not captured, the returned notes carry accumulated error notes
\* explaining it.
C18_DefaultsCarryErrorNotes ==
    /\ verif.pc = "returned"
    /\ \/ verif.dti_result = NoResult
       \/ verif.ltv_result = NoResult
       \/ verif.doc_result = NoResult
    => verif.result.notes.errors # <<>>

\* C19: when the orchestrator's own gateway call raises an API error (on the
\* first or a later iteration), run_orchestrator returns normally: the error
\* text is appended to the response text and listed in errors, and the
\* tool-call trace and the verification/policy/summary results captured in
\* earlier iterations are returned unchanged (all empty/None when the first
\* call fails).
C19_OrchestratorApiError ==
    [][ApiErrorRaised(orch, orch') =>
        LET r == orch'.result
            n == Len(orch.errors)
        IN  /\ orch'.pc = "returned"
            /\ Len(r.error_msg) = n + 1
            /\ SubSeq(r.error_msg, 1, n) = orch.errors
            /\ r.error_msg[n + 1].type = "FireworksAPIError"
            /\ r.errors = r.error_msg
            /\ r.tool_calls = orch.tool_calls_trace
            /\ r.verification_result = orch.verification_result
            /\ r.policy_result = orch.policy_result
            /\ r.summary = orch.final_summary
            /\ orch'.i = 1 =>
                /\ r.tool_calls = <<>>
                /\ r.verification_result = NoVerificationResult
                /\ r.policy_result = NoPolicyResult
                /\ r.summary = NoResult]_vars

\* the gateway raised on the orchestrator's second model call, after a turn
\* that captured a verification result
C19_Witness ==
    /\ orch.api_failed
    /\ orch.pc = "returned"
    /\ orch.i = 2
    /\ Len(orch.result.tool_calls) = 1
    /\ orch.result.verification_result # NoVerificationResult
    /\ Len(orch.result.errors) = 1

(***************************************************************************)
(* Properties of the endpoint.                                             *)
(***************************************************************************)
\* C20: with the API key configured, the POST /orchestrator endpoint returns
\* a normal (HTTP success) response for every request and every behaviour of
\* the model and tools; no failure inside the agent chain surfaces as an HTTP
\* error.
C20_EndpointAlwaysSucceeds ==
    http.api_key /\ http.pc = "responded" => http.status = HTTP_OK

\* C21: whenever at least one failure was accumulated during a request, the
\* body of the HTTP response has a field errors that lists all the
\* accumulated failure descriptions
C21_ResponseCarriesErrors ==
    (http.pc = "responded" /\ http.status = HTTP_OK /\ orch.result.errors # <<>>)
        => /\ "errors" \in DOMAIN http.body
           /\ http.body.errors = orch.result.errors

\* the calls of summarize_for_underwriter that returned, in the trace
Summarized ==
    {j \in 1..Len(orch.tool_calls_trace) :
        /\ orch.tool_calls_trace[j].tool = "summarize_for_underwriter"
        /\ ~orch.tool_calls_trace[j].result.error}

\* what a call of summarize_for_underwriter was given
GivenDocs(j) ==
    Get(orch.tool_calls_trace[j].arguments.verification_result,
        "missing_docs", <<>>)

GivenDecision(j) ==
    Get(orch.tool_calls_trace[j].arguments.policy_result, "decision", "UNKNOWN")

GivenCodes(j) ==
    Get(orch.tool_calls_trace[j].arguments.policy_result, "reason_codes", <<>>)

\* the three notes, told apart by how their text begins
NoteKind(note) ==
    CASE note[1] = "Application meets all policy criteria. Recommend approval pending standard verification."
            -> "approval"
      [] note[1] = "Application meets financial criteria but requires additional documentation: "
            -> "conditional"
      [] note[1] = "Application does not meet policy criteria. Issues: "
            -> "manual_review"
      [] OTHER -> "other"

\* the names a note lists between its opening and its closing, and whether
\* ", " stands between every two of them
NamesIn(note) ==
    [j \in 1..((Len(note) - 1) \div 2) |-> note[2 * j]]

WellSeparated(note) ==
    \A j \in 2..(Len(note) - 1) : (j % 2 = 1) => note[j] = ", "

\* C22: with decision PASS and a non-empty list of missing documents, the
\* underwriter note is the conditional-approval note and names every
\* document of the list once, in the order of the list; doc_conditions has
\* one "Missing" entry per document, in the same order
C22_ConditionalNoteNamesDocs ==
    \A j \in Summarized :
        (GivenDecision(j) = "PASS" /\ GivenDocs(j) # <<>>)
        => LET summary == orch.tool_calls_trace[j].result
           IN  /\ NoteKind(summary.underwriter_note) = "conditional"
               /\ NamesIn(summary.underwriter_note) = GivenDocs(j)
               /\ WellSeparated(summary.underwriter_note)
               /\ Len(summary.doc_conditions) = Len(GivenDocs(j))
               /\ \A d \in 1..Len(GivenDocs(j)) :
                    summary.doc_conditions[d] = <<"Missing: ", GivenDocs(j)[d]>>

C22_Witness ==
    \E j \in Summarized :
        /\ GivenDecision(j) = "PASS"
        /\ GivenDocs(j) = <<"ID", "PAYSTUB">>
        /\ NamesIn(orch.final_summary.underwriter_note) = <<"ID", "PAYSTUB">>

\* C23: the underwriter note is a total function of the decision and the
\* missing documents with three cases: the approval note iff the decision
\* is PASS and no document is missing, the conditional-approval note iff it
\* is PASS and some document is missing, and for every other decision, or
\* none, the manual-review note naming the reason codes
C23_NoteThreeWay ==
    /\ (orch.pc = "tools" /\ orch.k <= Len(orch.response.tool_calls)
         /\ O_NextCall.name = "summarize_for_underwriter")
        => ~ExecuteRaises(O_NextCall)
    /\ \A j \in Summarized :
        LET note == orch.tool_calls_trace[j].result.underwriter_note
        IN  /\ NoteKind(note) = "approval"
                <=> (GivenDecision(j) = "PASS" /\ GivenDocs(j) = <<>>)
            /\ NoteKind(note) = "conditional"
                <=> (GivenDecision(j) = "PASS" /\ GivenDocs(j) # <<>>)
            /\ GivenDecision(j) # "PASS"
                => /\ NoteKind(note) = "manual_review"
                   /\ NamesIn(note) = GivenCodes(j)

C23_Witness ==
    \E j \in Summarized :
        /\ "decision" \notin DOMAIN orch.tool_calls_trace[j].arguments.policy_result
        /\ GivenDocs(j) # <<>>
        /\ GivenCodes(j) = <<"DTI_EXCEEDED", "LOW_FICO">>
        /\ NoteKind(orch.final_summary.underwriter_note) = "manual_review"

\* a required argument is absent from the arguments, or present and null
LacksArgument(required, arguments) ==
    \E j \in 1..Len(required) :
        \/ required[j] \notin DOMAIN arguments
        \/ arguments[required[j]] = "null"

\* C24: for every agent's validator and every tool, a call with a required
\* argument absent, or present with value null, fails with a validation
\* error, and the tool's executable is not invoked
C24_ValidatorsRejectAbsentAndNull ==
    /\ \A j \in 1..Len(verif.tool_results) :
        LET t == verif.tool_results[j]
        IN  (/\ t.name \in DOMAIN TOOL_REQUIRED_ARGS
             /\ LacksArgument(TOOL_REQUIRED_ARGS[t.name], t.arguments))
            => t.result.error /\ t.result.text = "ValidationError"
    /\ (Len(callstack) = 2 /\ orch.pc = "nested")
        => ~LacksArgument(ORCHESTRATOR_REQUIRED[O_NextCall.name],
                          O_NextCall.arguments)

\* a metric the claim C25 is about: a null one, a negative ratio, a score
\* outside 300..850
Offends(field, class) ==
    IF field = "fico" THEN class \in {"null", "out"}
    ELSE class \in {"null", "neg"}

FirstOffending(input) ==
    IF Offends("dti_percent", input.dti_percent) THEN "dti_percent"
    ELSE IF Offends("ltv_percent", input.ltv_percent) THEN "ltv_percent"
    ELSE IF Offends("fico", input.fico) THEN "fico"
    ELSE None

\* C25: run_policy_agent called with a score outside 300..850, a negative
\* ratio or a null metric makes no model call and does not raise: it returns
\* decision FAIL, reason codes [VALIDATION_ERROR] and an explanation naming
\* the first offending field in the order dti_percent, ltv_percent, fico
C25_InvalidMetricsFailAtOnce ==
    (Top = "policy" /\ pol.pc # "idle" /\ FirstOffending(pol.input) # None)
    => /\ pol.pc = "returned"
       /\ pol.result = [decision |-> "FAIL",
                        reason_codes |-> <<"VALIDATION_ERROR">>,
                        explanation |-> FirstOffending(pol.input)]
       /\ pol.i = 0
       /\ pol.messages = <<>>
       /\ gw = GwIdle

C25_Witness ==
    /\ pol.pc = "returned"
    /\ pol.input.dti_percent = "neg"
    /\ pol.input.fico = "out"
    /\ pol.result.explanation = "dti_percent"

\* a direct call of the tool has returned or raised at least once
Called(name) ==
    /\ "tool_call" \in DOMAIN client
    /\ client.tool_call.name = name
    /\ client.outcomes # <<>>

NonPositive == {"zero", "neg", "null"}

\* C26: compute_dti and compute_ltv never divide by a denominator that is
\* not positive: an income that is <= 0 or null fails with a validation
\* error on income, a property_value that is <= 0 or null with one on
\* property_value, and a negative or null loan_amount with a valid
\* property_value with one on loan_amount; none of these calls gives a
\* result or a tool execution error
C26_NoDivisionByNonPositive ==
    \A j \in 1..Len(client.outcomes) :
        LET a == client.tool_call.arguments
            out == client.outcomes[j]
        IN  /\ (Called("compute_dti") /\ a.income \in NonPositive)
                => out.raised = ValidationError("income") /\ out.result.error
            /\ (Called("compute_ltv") /\ a.property_value \in NonPositive)
                => out.raised = ValidationError("property_value")
                   /\ out.result.error
            /\ (Called("compute_ltv") /\ a.property_value = "pos"
                 /\ a.loan_amount \in {"neg", "null"})
                => out.raised = ValidationError("loan_amount")
                   /\ out.result.error
            /\ (Called("compute_dti") \/ Called("compute_ltv"))
                => (~out.result.error
                    => /\ "income" \in DOMAIN a => a.income = "pos"
                       /\ "property_value" \in DOMAIN a
                            => a.property_value = "pos")

C26_Witness ==
    /\ Called("compute_ltv")
    /\ client.tool_call.arguments.property_value = "zero"
    /\ client.tool_call.arguments.loan_amount = "null"
    /\ client.outcomes[1].raised = ValidationError("property_value")

\* the set of the elements of a list
Elements(list) == {list[j] : j \in 1..Len(list)}

\* C27: for every list of uploaded documents, missing_docs of
\* check_doc_completeness is exactly {PAYSTUB, BANK_STATEMENT, ID} minus the
\* upper-cased uploaded names, complete is true iff missing_docs is empty,
\* and repeating the call with the same input gives the same result
C27_DocCompleteness ==
    Called("check_doc_completeness") =>
        \A j \in 1..Len(client.outcomes) :
            LET uploaded == client.tool_call.arguments.uploaded_docs
                out == client.outcomes[j].result
            IN  /\ ~out.error
                /\ \A r \in {"PAYSTUB", "BANK_STATEMENT", "ID"} :
                    r \in Elements(out.missing_docs)
                        <=> ~\E u \in Elements(uploaded) : Upper(u) = r
                /\ Elements(out.missing_docs) \subseteq
                        {"PAYSTUB", "BANK_STATEMENT", "ID"}
                /\ Cardinality(Elements(out.missing_docs)) = Len(out.missing_docs)
                /\ out.complete <=> out.missing_docs = <<>>
                /\ client.outcomes[j] = client.outcomes[1]

C27_Witness ==
    /\ Called("check_doc_completeness")
    /\ client.tool_call.arguments.uploaded_docs = <<"paystub", "W2", "paystub">>
    /\ Len(client.outcomes) = MaxRepeats
    /\ Elements(client.outcomes[2].result.missing_docs) = {"BANK_STATEMENT", "ID"}
    /\ ~client.outcomes[2].result.complete

\* C28: the summary returned by run_orchestrator is built from the
\* verification and policy results of the same run: its policy decision and
\* its documented missing documents agree with the verification_result
\* and the policy_result returned with it
C28_SummaryFromSameRun ==
    (orch.pc = "returned" /\ Truthy(orch.result.summary))
    => /\ orch.result.policy_result # NoPolicyResult
       /\ orch.result.summary.policy_decision[1]
            = orch.result.policy_result.decision
       /\ orch.result.verification_result # NoVerificationResult
       /\ orch.result.verification_result.missing_docs # None

\* the agent the orchestrator has invoked as a tool, while it runs
Nested == IF Top = "verification" THEN verif ELSE pol

NestedCeiling ==
    IF Top = "verification" THEN max_iterations_verification
    ELSE max_iterations_policy

\* the agent is entered as a tool: nothing of an earlier run is left in it
EntersFresh ==
    /\ Top' = "verification"
        => verif' = [VerifIdle EXCEPT !.app_data = O_NextCall.arguments]
    /\ Top' = "policy"
        => /\ pol'.i = 0 /\ pol'.messages = <<>> /\ pol'.tool_results = <<>>
           /\ pol'.policy_text = None /\ ~pol'.api_failed

\* C29: a verification or policy agent invoked as a tool by the
\* orchestrator runs on its own fresh conversation and under its own
\* ceiling: no step of it changes the orchestrator's conversation or its
\* iteration count, and an API error inside it ends in its degraded result,
\* which the orchestrator records as a tool result before going on with
\* its loop
C29_NestedAgentIsIndependent ==
    [][/\ (Len(callstack) = 1 /\ Len(callstack') = 2)
            => /\ EntersFresh
               /\ orch'.i = orch.i /\ orch'.messages = orch.messages
       /\ (Len(callstack) = 2 /\ Len(callstack') = 2)
            => /\ orch' = orch
               /\ Nested.i <= NestedCeiling
               /\ \A j \in 1..Len(Nested.messages) :
                    /\ Nested.messages[j] # orch.messages[1]
                    /\ Nested.messages[j] # orch.messages[2]
                    /\ Nested.messages[j].role \in {"system", "user"} => j <= 2
       /\ (Len(callstack) = 2 /\ Len(callstack') = 1)
            => /\ orch'.i = orch.i /\ orch'.messages = orch.messages
               /\ Nested.api_failed
                    => /\ Nested.pc = "returned"
                       /\ orch'.pc = "tools"
                       /\ ~orch'.api_failed
                       /\ orch'.errors = orch.errors
                       /\ ~orch'.tool_results[Len(orch'.tool_results)].result.error
      ]_vars

C29_Witness ==
    /\ callstack = <<"orchestrator">>
    /\ orch.pc = "await"
    /\ orch.i = 2
    /\ \E j \in 1..Len(orch.verification_result.notes.errors) :
        orch.verification_result.notes.errors[j].about = "api"
    /\ orch.errors = <<>>
    /\ ~orch.api_failed

\* C30: every invocation of run_policy_agent, run_verification_agent and
\* run_orchestrator, the nested invocations included, eventually returns a
\* result, when every gateway attempt ends and every turn has finitely many
\* tool calls
C30_EveryInvocationReturns ==
    /\ (callstack[1] = "verification") => <>(verif.pc = "returned")
    /\ (callstack[1] = "policy") => <>(pol.pc = "returned")
    /\ (callstack[1] = "orchestrator" /\ http.pc = "called")
            ~> (orch.pc = "returned")
    /\ (Len(callstack) = 2 /\ Top = "verification")
            ~> (Len(callstack) = 1 /\ orch.verification_result # NoVerificationResult)
    /\ (Len(callstack) = 2 /\ Top = "policy")
            ~> (Len(callstack) = 1 /\ orch.policy_result # NoPolicyResult)

\* the run is over after a last turn that requested tool calls, with all the
\* iterations of its loop used
EndedAtCeiling(f, ceiling) ==
    /\ f.pc \in {"returned", "raised"}
    /\ f.i = ceiling
    /\ f.response.set
    /\ f.response.tool_calls # <<>>

\* no tool call of the run failed: no tool message carries an error
NoToolFailed(f) ==
    \A j \in 1..Len(f.messages) :
        f.messages[j].role = "tool" => ~f.messages[j].error

C31_OrchestratorAtCeiling ==
    /\ EndedAtCeiling(orch, max_iterations_orchestrator)
    /\ NoToolFailed(orch)
    /\ ~orch.api_failed

\* the assistant message that the last turn of the activation appended
TurnAssistantMessage(f) == f.messages[Len(f.messages) - Len(f.tool_results)]

\* C32: in the policy loop, every tool call echoed in the appended
\* assistant message has the name and the arguments of the request with the
\* same id, whatever mix of get_policy_snippet and other tool names the turn
\* requested
C32_PolicyEchoMatchesRequest ==
    TurnDone(pol) =>
        \A j \in 1..Len(TurnAssistantMessage(pol).tool_calls) :
            LET echoed == TurnAssistantMessage(pol).tool_calls[j]
            IN  \E m \in 1..Len(pol.response.tool_calls) :
                    /\ pol.response.tool_calls[m].id = echoed.id
                    /\ pol.response.tool_calls[m].name = echoed.name
                    /\ pol.response.tool_calls[m].arguments = echoed.arguments

\* C33: the deterministic fallback depends only on the three metrics: the
\* evaluation of the same dti_percent, ltv_percent and fico with another
\* product name or another retrieved policy text has the same decision and
\* the same reason codes
C33_FallbackIgnoresProduct ==
    pol.pc = "returned" =>
        \A product \in {"Standard Mortgage", "FHA Loan", "Jumbo"} :
            \A t \in {None, POLICY_SNIPPETS(product)} :
                LET other == DeterministicFallback(pol.input.dti_percent,
                                                   pol.input.ltv_percent,
                                                   pol.input.fico, t)
                IN  /\ other.decision = pol.result.decision
                    /\ other.reason_codes = pol.result.reason_codes

\* metrics that the FHA text allows and the standard thresholds refuse
C33_Witness ==
    /\ pol.pc = "returned"
    /\ pol.input.product = "FHA Loan"
    /\ pol.policy_text = "FHA LOAN POLICY GUIDELINES"
    /\ pol.input.dti_percent = 50
    /\ pol.input.fico = 650
    /\ pol.result.decision = "FAIL"
    /\ pol.result.reason_codes = <<"DTI_EXCEEDED", "FICO_BELOW_MIN">>

\* ---------------------------------------------------------------------
\* C34
\* ---------------------------------------------------------------------

\* the slot of each tracked tool: verification.py 190-195, orchestrator.py
\* 305-310
VerificationSlots ==
    [compute_dti |-> "dti_result", compute_ltv |-> "ltv_result",
     check_doc_completeness |-> "doc_result"]

OrchestratorSlots ==
    [run_verification_agent |-> "verification_result",
     run_policy_agent |-> "policy_result",
     summarize_for_underwriter |-> "final_summary"]

\* the step from frame f to frame g recorded a call of name that returned
SucceededWith(f, g, name) ==
    /\ Len(g.tool_results) = Len(f.tool_results) + 1
    /\ g.tool_results[Len(g.tool_results)].name = name
    /\ ~g.tool_results[Len(g.tool_results)].result.error

\* the step from frame f to frame g recorded a call that raised
FailedCall(f, g) ==
    /\ Len(g.tool_results) = Len(f.tool_results) + 1
    /\ g.tool_results[Len(g.tool_results)].result.error

\* what the orchestrator tracks for a call of name that returned in this
\* step: the nested agent's result, or the summary
TrackedValue(name, g) ==
    CASE name = "run_verification_agent" -> verif.result
      [] name = "run_policy_agent" -> pol.result
      [] OTHER -> g.tool_results[Len(g.tool_results)].result

\* C34: within one run of the verification loop and of the orchestrator
\* loop, a tracked result slot changes only in a step that records a
\* successful call of the slot's own tool, and then it holds that call's
\* result; a step that records a failed call leaves every slot as it was;
\* the returned result is built from the slots as they are at the end.
C34_SlotsFollowSuccessfulCalls ==
    [][/\ verif'.pc # "idle" =>
            \A name \in DOMAIN VerificationSlots :
               LET slot == VerificationSlots[name]
               IN  /\ verif'[slot] # verif[slot]
                        => SucceededWith(verif, verif', name)
                   /\ SucceededWith(verif, verif', name)
                        => verif'[slot] =
                             verif'.tool_results[Len(verif'.tool_results)].result
                   /\ FailedCall(verif, verif') => verif'[slot] = verif[slot]
       /\ \A name \in DOMAIN OrchestratorSlots :
               LET slot == OrchestratorSlots[name]
               IN  /\ orch'[slot] # orch[slot]
                        => SucceededWith(orch, orch', name)
                   /\ SucceededWith(orch, orch', name)
                        => orch'[slot] = TrackedValue(name, orch')
                   /\ FailedCall(orch, orch') => orch'[slot] = orch[slot]
       /\ verif'.pc = "returned" /\ verif.pc # "returned"
            => /\ verif'.dti_result = verif.dti_result
               /\ verif'.ltv_result = verif.ltv_result
               /\ verif'.doc_result = verif.doc_result
               /\ (verif'.result.dti_percent = "dti_percent")
                     <=> Truthy(verif.dti_result)
               /\ (verif'.result.ltv_percent = "ltv_percent")
                     <=> Truthy(verif.ltv_result)
               /\ (verif'.result.missing_docs = "missing_docs")
                     <=> Truthy(verif.doc_result)
       /\ orch'.pc = "returned" /\ orch.pc # "returned"
            => /\ orch'.result.verification_result = orch.verification_result
               /\ orch'.result.policy_result = orch.policy_result
               /\ orch'.result.summary = orch.final_summary
      ]_vars

\* a verification run whose compute_dti call returned and whose later
\* compute_dti call raised: the result still carries the ratio
C34_Witness ==
    /\ verif.pc = "returned"
    /\ Truthy(verif.dti_result)
    /\ verif.result.dti_percent = "dti_percent"
    /\ Len(verif.tool_results) > 0
    /\ verif.tool_results[Len(verif.tool_results)].name = "compute_dti"
    /\ verif.tool_results[Len(verif.tool_results)].result.error

\* an orchestrator run that kept its summary through a failed call
C34_OrchestratorKeepsSummary ==
    /\ orch.pc = "returned"
    /\ Truthy(orch.final_summary)
    /\ orch.result.summary = orch.final_summary
    /\ Len(orch.tool_calls_trace) >= 2
    /\ orch.tool_calls_trace[Len(orch.tool_calls_trace)].result.error

\* ---------------------------------------------------------------------
\* C35
\* ---------------------------------------------------------------------

\* the tool calls of the turns already in the conversation, in order
RECURSIVE Requested(_)
Requested(messages) ==
    IF messages = <<>>
    THEN <<>>
    ELSE Requested(SubSeq(messages, 1, Len(messages) - 1))
            \o messages[Len(messages)].tool_calls

\* the calls of the turn in progress that have been executed so far
ExecutedInTurn(o) ==
    IF o.pc \in {"tools", "nested"}
    THEN SubSeq(o.response.tool_calls, 1, o.k - 1)
    ELSE <<>>

\* the trace has one entry per call of the processed turns, in order
TraceFollowsRequests(o) ==
    LET calls == Requested(o.messages) \o ExecutedInTurn(o)
    IN  /\ Len(o.tool_calls_trace) = Len(calls)
        /\ \A j \in 1..Len(calls) :
              /\ o.tool_calls_trace[j].tool = calls[j].name
              /\ o.tool_calls_trace[j].arguments = calls[j].arguments

FailedEntries(trace) == {j \in 1..Len(trace) : trace[j].result.error}

\* C35: the trace returned by run_orchestrator has exactly one entry per
\* tool call the model requested in the turns that were processed, in
\* request order; the entry of a call that raised has an error-shaped
\* result and the entry of a call that returned has not; the returned
\* errors value is None exactly when no call failed and no API error
\* occurred.
C35_TraceHasEveryRequestedCall ==
    [][/\ TraceFollowsRequests(orch')
       \* the turn is put into the conversation as the model requested it
       /\ orch'.messages # orch.messages /\ orch.pc = "tools"
            => /\ orch.k = Len(orch.response.tool_calls) + 1
               /\ orch'.messages[Len(orch.messages) + 1].tool_calls
                     = orch.response.tool_calls
       \* an entry is error-shaped exactly when its call raised
       /\ orch'.tool_calls_trace # orch.tool_calls_trace
            => LET e == orch'.tool_calls_trace[Len(orch'.tool_calls_trace)]
               IN  /\ orch'.tool_calls_trace
                        = Append(orch.tool_calls_trace, e)
                   /\ orch.pc = "tools"
                        => (e.result.error <=> ExecuteRaises(O_NextCall))
                   /\ orch.pc = "nested"
                        => (e.result.error <=>
                              \/ Top = "verification" /\ verif.pc = "raised"
                              \/ Top = "policy" /\ pol.pc = "raised")
                   /\ e.result.error
                        <=> Len(orch'.errors) = Len(orch.errors) + 1
       /\ orch'.pc = "returned" /\ orch.pc # "returned"
            => /\ orch'.result.tool_calls = orch.tool_calls_trace
               /\ (orch'.result.errors = <<>>)
                     <=> /\ FailedEntries(orch.tool_calls_trace) = {}
                         /\ ~orch'.api_failed
      ]_vars

\* two turns were processed, the second call of the first one failed, and
\* the run returned a trace of three entries with its errors
C35_Witness ==
    /\ orch.pc = "returned"
    /\ Len(orch.result.tool_calls) = 3
    /\ FailedEntries(orch.result.tool_calls) = {2}
    /\ orch.result.errors # <<>>
    /\ ~orch.api_failed
    /\ Len(Requested(orch.messages)) = 3

\* a run that ended in an API error after a turn without failed calls
C35_ApiErrorOnly ==
    /\ orch.pc = "returned"
    /\ orch.api_failed
    /\ Len(orch.result.tool_calls) > 0
    /\ FailedEntries(orch.result.tool_calls) = {}
    /\ orch.result.errors # <<>>

\* ---------------------------------------------------------------------
\* C36
\* ---------------------------------------------------------------------

\* both functions were applied to the three numbers of the run
BothApplied == pol.pc = "returned" /\ Truthy(orch.final_summary)

SummaryAgrees(summary, result) ==
    /\ (/\ summary.dti_summary.status = "PASS"
        /\ summary.ltv_summary.status = "PASS"
        /\ summary.fico_summary.status = "PASS")
          <=> result.decision = "PASS"
    /\ summary.dti_summary.status = "FAIL"
          <=> "DTI_EXCEEDED" \in Elements(result.reason_codes)
    /\ summary.ltv_summary.status = "FAIL"
          <=> "LTV_EXCEEDED" \in Elements(result.reason_codes)
    /\ summary.fico_summary.status = "FAIL"
          <=> "FICO_BELOW_MIN" \in Elements(result.reason_codes)

\* C36: for all (dti, ltv, fico) the three summaries of
\* summarize_for_underwriter are all marked PASS iff the deterministic
\* fallback decides PASS for the same values, and each metric is marked
\* FAIL iff the fallback lists the matching reason code.
C36_SummaryAgreesWithFallback ==
    BothApplied => SummaryAgrees(orch.final_summary, pol.result)

\* the same agreement for the numbers that are ordered: it holds
C36_AgreesOnOrderedNumbers ==
    (/\ BothApplied
     /\ NaN \notin {pol.input.dti_percent, pol.input.ltv_percent, pol.input.fico})
    => SummaryAgrees(orch.final_summary, pol.result)

\* a ratio just above its threshold with the other two at theirs
C36_OrderedWitness ==
    /\ BothApplied
    /\ pol.input.dti_percent = max_dti + 1
    /\ pol.input.ltv_percent = max_ltv
    /\ pol.input.fico = min_fico
    /\ pol.result.reason_codes = <<"DTI_EXCEEDED">>
    /\ orch.final_summary.dti_summary.status = "FAIL"
    /\ orch.final_summary.ltv_summary.status = "PASS"
    /\ orch.final_summary.fico_summary.status = "PASS"

\* ---------------------------------------------------------------------
\* C37
\* ---------------------------------------------------------------------

\* the errors an agent run recorded for API errors of its own calls
ApiErrors(f) == {j \in 1..Len(f.errors) : f.errors[j].about = "api"}

\* the attempts of run f stay within its passes times the attempts of one
\* call, and no attempt follows the API error of run e into run f
AttemptsWithin(e, f, ceiling) ==
    /\ f.i <= ceiling
    /\ f.attempts <= f.i * (MAX_RETRIES + 1)
    /\ f.attempts <= ceiling * (MAX_RETRIES + 1)
    /\ (e.api_failed /\ f.pc # "idle")
          => /\ f.api_failed
             /\ f.attempts = e.attempts
             /\ f.i = e.i

C37_ThreeAttemptsInOnePass ==
    /\ verif.i = 1
    /\ verif.attempts = MAX_RETRIES + 1

\* an orchestrator run that ended in an API error after a retry
C37_ApiErrorAfterRetry ==
    /\ orch.pc = "returned"
    /\ orch.api_failed
    /\ orch.i >= 2
    /\ orch.attempts = orch.i + 1

====
